---------------------------- MODULE Spec2Model ----------------------------
(***************************************************************************)
(* PSoup-Explorer: the two 32-node network update rules (psoup.py,         *)
(* psoup_gxe.py), the fixed-point solver that iterates them, and the       *)
(* scenario runner of analysis.py / scenarios.py.                          *)
(*                                                                         *)
(* Python floats are modelled as decimal fixed-point numbers: the integer  *)
(* n stands for n / SCALE.  Every arithmetic operation of the source is    *)
(* translated in the source's order of evaluation and rounds its result to *)
(* the nearest representable value, as a floating-point operation does.    *)
(***************************************************************************)
EXTENDS Integers, Sequences, FiniteSets, TLC

(***************************************************************************)
(* Fixed-point arithmetic                                                  *)
(***************************************************************************)
\* Resolution of the number model: six decimal digits.
SCALE == 1000 * 1000

\* The number written n in the source (an integer literal, or n.0).
N(n) == n * SCALE

\* The literals 0.0, 1.0, 2.0, 0.5 and 1.5 of the source.
Zero == N(0)
One == N(1)
Two == N(2)
Half == SCALE \div 2
OneAndHalf == One + Half

Abs(x) == IF x < 0 THEN -x ELSE x

Min(a, b) == IF a <= b THEN a ELSE b

\* a * b, rounded to the nearest unit.  The product is assembled from
\* base-1000 digits so that no intermediate value leaves the 32-bit range.
Mul(a, b) ==
  LET a1 == a \div 1000
      a0 == a % 1000
      b1 == b \div 1000
      b0 == b % 1000
      m  == a1 * b0 + a0 * b1
      m1 == m \div 1000
      m0 == m % 1000
  IN  a1 * b1 + m1 + ((m0 * 1000 + a0 * b0 + (SCALE \div 2)) \div SCALE)

\* Long division of r * 100^n by b (0 <= r < b): <<quotient, remainder>>.
RECURSIVE LongDiv(_, _, _, _)
LongDiv(q, r, b, n) ==
  IF n = 0 THEN <<q, r>>
  ELSE LongDiv(q * 100 + ((r * 100) \div b), (r * 100) % b, b, n - 1)

\* a / b for b > 0, rounded to the nearest unit.
DivPos(a, b) ==
  LET qr == LongDiv(a \div b, a % b, b, 3)
  IN  qr[1] + (IF 2 * qr[2] >= b THEN 1 ELSE 0)

\* a / b.  Python raises ZeroDivisionError for b = 0; no state of this
\* model divides by zero (TLC would report the division).
Div(a, b) == IF b > 0 THEN DivPos(a, b) ELSE DivPos(-a, -b)

(***************************************************************************)
(* Names                                                                   *)
(***************************************************************************)
\* The keys of default_gene_vals, in the order of the source.
GeneNames ==
  << "mSL_n", "mBRC1_2_n", "mCK_n", "mAux_n", "mABA_n", "mPIN_1_3_4_7_n",
     "mAux_Bud_n", "mSUC_n", "mGA_n", "mDecap_signal_n", "mCXE_n",
     "mSMXL6_7_8_n", "mFHY3_FAR1_n", "mSPL9_15_n", "mMAX2_n", "mD14_n",
     "mD27_n", "mMAX3_n", "mMAX4_n", "mMAX1_n", "mLBO_n", "mCLAMT_n",
     "mPhyB_n", "mPIFs_n", "mHB21_40_53_n", "mNCED3_n",
     "mSL_pathway_intact" >>

\* The keys of default_node_vals, in the order of the source.
NodeNames ==
  << "mSL", "mBRC1_2", "mCK", "mAux_Shoot", "mABA", "mBud_release",
     "mPAT_Bud", "mAux_Bud", "mSUC", "mSustained_growth", "mGA",
     "mDecap_signal", "mCXE", "mSMXL6_7_8", "mFHY3_FAR1", "mSPL9_15",
     "mSMXL6_7_8_Transcription", "mLow_R_FR", "mMAX2", "mD14",
     "mPerception_SL", "mD27", "mMAX3", "mMAX4", "mMAX1", "mLBO", "mCLAMT",
     "mPhyB", "mHigh_R_FR", "mPIFs", "mHB21_40_53", "mNCED3" >>

Range(seq) == { seq[i] : i \in DOMAIN seq }

Genes == Range(GeneNames)
Nodes == Range(NodeNames)

\* The two simulator classes.
Variants == { "Baseline", "GxE" }

\* default_gene_vals, default_node_vals and default_exo_vals of a freshly
\* constructed simulator (the same in both classes).
default_gene_vals == [ k \in Genes |-> One ]
default_node_vals == [ k \in Nodes |-> One ]
default_exo_vals == [ k \in Nodes |-> Zero ]

(***************************************************************************)
(* PSoupSimulator.step_next: the right-hand side assigned to new[k]        *)
(***************************************************************************)
EqBaseline(k, old, gene_vals, exo_vals) ==
  CASE k = "mSL" ->
         Mul(Mul(Div(Two, One + old.mCXE), gene_vals.mSL_n), old.mLBO)
           + exo_vals.mSL
    [] k = "mBRC1_2" ->
         Mul(Div(Mul(Two, Div(old.mPIFs + old.mSPL9_15, Two)),
                 One + Div(old.mCK + old.mSUC + old.mPhyB, N(3))),
             gene_vals.mBRC1_2_n)
           + exo_vals.mBRC1_2
    [] k = "mCK" ->
         Mul(Div(Mul(Two, old.mSUC),
                 One + Div(old.mAux_Shoot + old.mPerception_SL, Two)),
             gene_vals.mCK_n)
           + exo_vals.mCK
    [] k = "mAux_Shoot" ->
         Mul(Div(Two, One + old.mDecap_signal), gene_vals.mAux_n)
           + exo_vals.mAux_Shoot
    [] k = "mABA" ->
         Mul(old.mNCED3, gene_vals.mABA_n) + exo_vals.mABA
    [] k = "mBud_release" ->
         Div(Mul(Two, Div(old.mSUC + old.mCK, Two)),
             One + Div(old.mABA + old.mBRC1_2, Two))
           + exo_vals.mBud_release
    [] k = "mPAT_Bud" ->
         Mul(Div(Mul(Two, Div(old.mAux_Bud + old.mCK + old.mDecap_signal, N(3))),
                 One + old.mAux_Shoot),
             gene_vals.mPIN_1_3_4_7_n)
           + exo_vals.mPAT_Bud
    [] k = "mAux_Bud" ->
         gene_vals.mAux_Bud_n + exo_vals.mAux_Bud
    [] k = "mSUC" ->
         Mul(old.mDecap_signal, gene_vals.mSUC_n) + exo_vals.mSUC
    [] k = "mSustained_growth" ->
         Mul(Div(Mul(Two, Min(old.mGA, old.mPAT_Bud)), One + old.mSUC),
             old.mBud_release)
           + exo_vals.mSustained_growth
    [] k = "mGA" ->
         Mul(old.mAux_Bud, gene_vals.mGA_n) + exo_vals.mGA
    [] k = "mDecap_signal" ->
         gene_vals.mDecap_signal_n + exo_vals.mDecap_signal
    [] k = "mCXE" ->
         gene_vals.mCXE_n + exo_vals.mCXE
    [] k = "mSMXL6_7_8" ->
         Mul(Div(Mul(Two, Div(old.mSMXL6_7_8_Transcription + old.mFHY3_FAR1, Two)),
                 One + old.mPerception_SL),
             gene_vals.mSMXL6_7_8_n)
           + exo_vals.mSMXL6_7_8
    [] k = "mFHY3_FAR1" ->
         Mul(Div(Mul(Two, old.mHigh_R_FR), One + old.mLow_R_FR),
             gene_vals.mFHY3_FAR1_n)
           + exo_vals.mFHY3_FAR1
    [] k = "mSPL9_15" ->
         Mul(Div(Two, One + Div(old.mFHY3_FAR1 + old.mSMXL6_7_8, Two)),
             gene_vals.mSPL9_15_n)
           + exo_vals.mSPL9_15
    [] k = "mSMXL6_7_8_Transcription" ->
         Div(Two, One + old.mSMXL6_7_8) + exo_vals.mSMXL6_7_8_Transcription
    [] k = "mLow_R_FR" ->
         One + exo_vals.mLow_R_FR
    [] k = "mMAX2" ->
         Mul(Div(Two, One + Div(old.mSUC + old.mPhyB, Two)), gene_vals.mMAX2_n)
           + exo_vals.mMAX2
    [] k = "mD14" ->
         gene_vals.mD14_n + exo_vals.mD14
    [] k = "mPerception_SL" ->
         Min(old.mD14, Min(old.mMAX2, old.mSL)) + exo_vals.mPerception_SL
    [] k = "mD27" ->
         gene_vals.mD27_n + exo_vals.mD27
    [] k = "mMAX3" ->
         Mul(Mul(Div(Mul(Two, old.mAux_Shoot), One + old.mPerception_SL),
                 gene_vals.mMAX3_n),
             old.mD27)
           + exo_vals.mMAX3
    [] k = "mMAX4" ->
         Mul(Mul(Div(Mul(Two, old.mAux_Shoot),
                     One + Div(old.mPerception_SL + old.mPhyB, Two)),
                 gene_vals.mMAX4_n),
             old.mMAX3)
           + exo_vals.mMAX4
    [] k = "mMAX1" ->
         Mul(Mul(Div(Two, One + old.mPerception_SL), gene_vals.mMAX1_n),
             old.mMAX4)
           + exo_vals.mMAX1
    [] k = "mLBO" ->
         Mul(gene_vals.mLBO_n, old.mCLAMT) + exo_vals.mLBO
    [] k = "mCLAMT" ->
         Mul(gene_vals.mCLAMT_n, old.mMAX1) + exo_vals.mCLAMT
    [] k = "mPhyB" ->
         Mul(Div(Mul(Two, old.mHigh_R_FR), One + old.mLow_R_FR),
             gene_vals.mPhyB_n)
           + exo_vals.mPhyB
    [] k = "mHigh_R_FR" ->
         One + exo_vals.mHigh_R_FR
    [] k = "mPIFs" ->
         Mul(Div(Two, One + old.mHigh_R_FR), gene_vals.mPIFs_n)
           + exo_vals.mPIFs
    [] k = "mHB21_40_53" ->
         Mul(Min(old.mBRC1_2, old.mLow_R_FR), gene_vals.mHB21_40_53_n)
           + exo_vals.mHB21_40_53
    [] k = "mNCED3" ->
         Mul(old.mHB21_40_53, gene_vals.mNCED3_n) + exo_vals.mNCED3

(***************************************************************************)
(* PSoupSimulatorGxE.step_next: the modified bud-release rule              *)
(***************************************************************************)
\* base_drive = (suc + ck) / 2.0
base_drive(old) == Div(old.mSUC + old.mCK, Two)

\* The dial never looked up: the pathway always counted as intact.
intact_always_one(gene_vals) == One

\* intact = gene_vals.get('mSL_pathway_intact', 1.0)
intact(gene_vals) ==
  IF "mSL_pathway_intact" \in DOMAIN gene_vals
  THEN gene_vals.mSL_pathway_intact
  ELSE One

\* The relief taken as the sucrose level itself, unsaturated.
suc_relief_unsaturated(old) == old.mSUC

\* suc_relief = suc / (1.0 + suc)
suc_relief(old) == Div(old.mSUC, One + old.mSUC)

\* bonus_strength = 0.5
bonus_strength == Half

\* A bonus that leaves the dial out.
hormonal_bonus_without_dial(old, gene_vals) ==
  Mul(bonus_strength, suc_relief(old))

\* hormonal_bonus = bonus_strength * intact * suc_relief
hormonal_bonus(old, gene_vals) ==
  Mul(Mul(bonus_strength, intact(gene_vals)), suc_relief(old))

\* growth_drive = base_drive * (1.0 + hormonal_bonus)
growth_drive(old, gene_vals) ==
  Mul(base_drive(old), One + hormonal_bonus(old, gene_vals))

\* An ABA brake that sums the two repressors without halving.
ABA_brake_sum(old) == old.mABA + old.mBRC1_2

\* ABA_brake = (old['mABA'] + old['mBRC1_2']) / 2.0
ABA_brake(old) == Div(old.mABA + old.mBRC1_2, Two)

\* An SL brake that leaves the dial out.
SL_brake_without_dial(old, gene_vals) ==
  Mul(old.mPerception_SL, One - suc_relief(old))

\* SL_brake_effective = SL_brake_base * intact * (1.0 - suc_relief)
SL_brake_effective(old, gene_vals) ==
  Mul(Mul(old.mPerception_SL, intact(gene_vals)), One - suc_relief(old))

(***************************************************************************)
(* PSoupSimulatorGxE.step_next: the right-hand side assigned to new[k]     *)
(***************************************************************************)
EqGxE(k, old, gene_vals, exo_vals) ==
  CASE k = "mSL" ->
         Mul(Mul(Div(Two, One + old.mCXE), gene_vals.mSL_n), old.mLBO)
           + exo_vals.mSL
    [] k = "mBRC1_2" ->
         Mul(Div(Mul(Two, Div(old.mPIFs + old.mSPL9_15, Two)),
                 One + Div(old.mCK + old.mSUC + old.mPhyB, N(3))),
             gene_vals.mBRC1_2_n)
           + exo_vals.mBRC1_2
    [] k = "mCK" ->
         Mul(Div(Mul(Two, old.mSUC),
                 One + Div(old.mAux_Shoot + old.mPerception_SL, Two)),
             gene_vals.mCK_n)
           + exo_vals.mCK
    [] k = "mAux_Shoot" ->
         Mul(Div(Two, One + old.mDecap_signal), gene_vals.mAux_n)
           + exo_vals.mAux_Shoot
    [] k = "mABA" ->
         Mul(old.mNCED3, gene_vals.mABA_n) + exo_vals.mABA
    [] k = "mBud_release" ->
         Div(Mul(Two, growth_drive(old, gene_vals)),
             One + ABA_brake(old) + SL_brake_effective(old, gene_vals))
           + exo_vals.mBud_release
    [] k = "mPAT_Bud" ->
         Mul(Div(Mul(Two, Div(old.mAux_Bud + old.mCK + old.mDecap_signal, N(3))),
                 One + old.mAux_Shoot),
             gene_vals.mPIN_1_3_4_7_n)
           + exo_vals.mPAT_Bud
    [] k = "mAux_Bud" ->
         gene_vals.mAux_Bud_n + exo_vals.mAux_Bud
    [] k = "mSUC" ->
         Mul(old.mDecap_signal, gene_vals.mSUC_n) + exo_vals.mSUC
    [] k = "mSustained_growth" ->
         Mul(Div(Mul(Two, Min(old.mGA, old.mPAT_Bud)), One + old.mSUC),
             old.mBud_release)
           + exo_vals.mSustained_growth
    [] k = "mGA" ->
         Mul(old.mAux_Bud, gene_vals.mGA_n) + exo_vals.mGA
    [] k = "mDecap_signal" ->
         gene_vals.mDecap_signal_n + exo_vals.mDecap_signal
    [] k = "mCXE" ->
         gene_vals.mCXE_n + exo_vals.mCXE
    [] k = "mSMXL6_7_8" ->
         Mul(Div(Mul(Two, Div(old.mSMXL6_7_8_Transcription + old.mFHY3_FAR1, Two)),
                 One + old.mPerception_SL),
             gene_vals.mSMXL6_7_8_n)
           + exo_vals.mSMXL6_7_8
    [] k = "mFHY3_FAR1" ->
         Mul(Div(Mul(Two, old.mHigh_R_FR), One + old.mLow_R_FR),
             gene_vals.mFHY3_FAR1_n)
           + exo_vals.mFHY3_FAR1
    [] k = "mSPL9_15" ->
         Mul(Div(Two, One + Div(old.mFHY3_FAR1 + old.mSMXL6_7_8, Two)),
             gene_vals.mSPL9_15_n)
           + exo_vals.mSPL9_15
    [] k = "mSMXL6_7_8_Transcription" ->
         Div(Two, One + old.mSMXL6_7_8) + exo_vals.mSMXL6_7_8_Transcription
    [] k = "mLow_R_FR" ->
         One + exo_vals.mLow_R_FR
    [] k = "mMAX2" ->
         Mul(Div(Two, One + Div(old.mSUC + old.mPhyB, Two)), gene_vals.mMAX2_n)
           + exo_vals.mMAX2
    [] k = "mD14" ->
         gene_vals.mD14_n + exo_vals.mD14
    [] k = "mPerception_SL" ->
         Min(old.mD14, Min(old.mMAX2, old.mSL)) + exo_vals.mPerception_SL
    [] k = "mD27" ->
         gene_vals.mD27_n + exo_vals.mD27
    [] k = "mMAX3" ->
         Mul(Mul(Div(Mul(Two, old.mAux_Shoot), One + old.mPerception_SL),
                 gene_vals.mMAX3_n),
             old.mD27)
           + exo_vals.mMAX3
    [] k = "mMAX4" ->
         Mul(Mul(Div(Mul(Two, old.mAux_Shoot),
                     One + Div(old.mPerception_SL + old.mPhyB, Two)),
                 gene_vals.mMAX4_n),
             old.mMAX3)
           + exo_vals.mMAX4
    [] k = "mMAX1" ->
         Mul(Mul(Div(Two, One + old.mPerception_SL), gene_vals.mMAX1_n),
             old.mMAX4)
           + exo_vals.mMAX1
    [] k = "mLBO" ->
         Mul(gene_vals.mLBO_n, old.mCLAMT) + exo_vals.mLBO
    [] k = "mCLAMT" ->
         Mul(gene_vals.mCLAMT_n, old.mMAX1) + exo_vals.mCLAMT
    [] k = "mPhyB" ->
         Mul(Div(Mul(Two, old.mHigh_R_FR), One + old.mLow_R_FR),
             gene_vals.mPhyB_n)
           + exo_vals.mPhyB
    [] k = "mHigh_R_FR" ->
         One + exo_vals.mHigh_R_FR
    [] k = "mPIFs" ->
         Mul(Div(Two, One + old.mHigh_R_FR), gene_vals.mPIFs_n)
           + exo_vals.mPIFs
    [] k = "mHB21_40_53" ->
         Mul(Min(old.mBRC1_2, old.mLow_R_FR), gene_vals.mHB21_40_53_n)
           + exo_vals.mHB21_40_53
    [] k = "mNCED3" ->
         Mul(old.mHB21_40_53, gene_vals.mNCED3_n) + exo_vals.mNCED3

(***************************************************************************)
(* step_next                                                               *)
(***************************************************************************)
\* The two classes' rules with the copy in psoup_gxe.py drifted: its mCK
\* rule sums the two repressors where the original averages them.
EqWithDriftedCopy(variant, k, old, gene_vals, exo_vals) ==
  IF variant = "Baseline"
  THEN EqBaseline(k, old, gene_vals, exo_vals)
  ELSE IF k = "mCK"
  THEN Mul(Div(Mul(Two, old.mSUC),
               One + old.mAux_Shoot + old.mPerception_SL),
           gene_vals.mCK_n)
         + exo_vals.mCK
  ELSE EqGxE(k, old, gene_vals, exo_vals)

\* Both classes running the GxE class's rules.
EqFromGxEClassOnly(variant, k, old, gene_vals, exo_vals) ==
  EqGxE(k, old, gene_vals, exo_vals)

\* The original class's mBud_release rule multiplied by the previous
\* bud-release value, as its mSustained_growth rule is.
EqBudReleaseTimesPrevious(variant, k, old, gene_vals, exo_vals) ==
  IF variant = "Baseline"
  THEN IF k = "mBud_release"
       THEN Mul(Div(Mul(Two, Div(old.mSUC + old.mCK, Two)),
                    One + Div(old.mABA + old.mBRC1_2, Two)),
                old.mBud_release)
              + exo_vals.mBud_release
       ELSE EqBaseline(k, old, gene_vals, exo_vals)
  ELSE EqGxE(k, old, gene_vals, exo_vals)

\* The right-hand side of the assignment to new[k] in the class `variant`.
Eq(variant, k, old, gene_vals, exo_vals) ==
  IF variant = "Baseline"
  THEN EqBaseline(k, old, gene_vals, exo_vals)
  ELSE EqGxE(k, old, gene_vals, exo_vals)

(***************************************************************************)
(* The divisions of step_next                                              *)
(***************************************************************************)
\* The divisors, other than the literals 2 and 3, that the right-hand side
\* of new[k] evaluates in PSoupSimulator.step_next.
DivisorsBaseline(k, old) ==
  CASE k = "mSL" -> { One + old.mCXE }
    [] k = "mBRC1_2" -> { One + Div(old.mCK + old.mSUC + old.mPhyB, N(3)) }
    [] k = "mCK" -> { One + Div(old.mAux_Shoot + old.mPerception_SL, Two) }
    [] k = "mAux_Shoot" -> { One + old.mDecap_signal }
    [] k = "mBud_release" -> { One + Div(old.mABA + old.mBRC1_2, Two) }
    [] k = "mPAT_Bud" -> { One + old.mAux_Shoot }
    [] k = "mSustained_growth" -> { One + old.mSUC }
    [] k = "mSMXL6_7_8" -> { One + old.mPerception_SL }
    [] k = "mFHY3_FAR1" -> { One + old.mLow_R_FR }
    [] k = "mSPL9_15" -> { One + Div(old.mFHY3_FAR1 + old.mSMXL6_7_8, Two) }
    [] k = "mSMXL6_7_8_Transcription" -> { One + old.mSMXL6_7_8 }
    [] k = "mMAX2" -> { One + Div(old.mSUC + old.mPhyB, Two) }
    [] k = "mMAX3" -> { One + old.mPerception_SL }
    [] k = "mMAX4" -> { One + Div(old.mPerception_SL + old.mPhyB, Two) }
    [] k = "mMAX1" -> { One + old.mPerception_SL }
    [] k = "mPhyB" -> { One + old.mLow_R_FR }
    [] k = "mPIFs" -> { One + old.mHigh_R_FR }
    [] OTHER -> {}

\* The same for PSoupSimulatorGxE.step_next: its mBud_release divides by
\* 1.0 + suc for suc_relief and then by 1.0 + ABA_brake + SL_brake_effective
\* (not reached when the first division fails).
DivisorsGxE(k, old, gene_vals) ==
  IF k = "mBud_release"
  THEN IF One + old.mSUC = Zero
       THEN { Zero }
       ELSE { One + old.mSUC,
              One + ABA_brake(old) + SL_brake_effective(old, gene_vals) }
  ELSE DivisorsBaseline(k, old)

Divisors(variant, k, old, gene_vals) ==
  CASE variant = "Baseline" -> DivisorsBaseline(k, old)
    [] variant = "GxE" -> DivisorsGxE(k, old, gene_vals)
    [] OTHER -> {}

\* step_next raises ZeroDivisionError: one of its divisors is 0.
StepRaises(variant, old, gene_vals) ==
  \E k \in Nodes : Zero \in Divisors(variant, k, old, gene_vals)

\* A sequential sweep: an entry already stored in new is read from new.
ReadSourceSequential(old, new) == new @@ old

\* The map the right-hand sides read: old, the copy of node_vals taken on
\* entry (old = node_vals.copy()), whatever has been stored in new so far.
ReadSource(old, new) == old

\* The value bound once: TLC evaluates the element of a singleton set a
\* single time, where it would re-evaluate an operator argument at each use.
Only(S) == CHOOSE x \in S : TRUE

\* The assignments new[k] = ... of step_next for the lo-th to the hi-th node
\* of the source, executed in that order; new holds the entries assigned so
\* far.  (The range is halved instead of walked, to keep TLC's stack short.)
RECURSIVE Assign(_, _, _, _, _, _, _)
Assign(variant, lo, hi, old, new, gene_vals, exo_vals) ==
  IF lo = hi
  THEN (NodeNames[lo] :> Eq(variant, NodeNames[lo], ReadSource(old, new),
                            gene_vals, exo_vals)) @@ new
  ELSE Only({ Assign(variant, ((lo + hi) \div 2) + 1, hi, old, n1,
                     gene_vals, exo_vals) :
              n1 \in { Assign(variant, lo, (lo + hi) \div 2, old, new,
                              gene_vals, exo_vals) } })

\* The empty dict: new = {}.
EmptyMap == [ k \in {} |-> Zero ]

\* The update of a toy network that halves every distance: each entry is
\* new = 0.5*old + constant.
toy_step_next(node_vals, constant) ==
  [ k \in DOMAIN node_vals |-> Mul(Half, node_vals[k]) + constant[k] ]

\* step_next with the last of its assignments left out.
step_next_without_last(variant, gene_vals, node_vals, exo_vals) ==
  Assign(variant, 1, Len(NodeNames) - 1, node_vals, EmptyMap, gene_vals,
         exo_vals)

\* self.step_next(gene_vals, node_vals, exo_vals): the map returned by the
\* method of the simulator's class.  A toy class overrides the method as a
\* whole, with its constants passed as exo_vals.
step_next(variant, gene_vals, node_vals, exo_vals) ==
  IF variant = "Toy"
  THEN toy_step_next(node_vals, exo_vals)
  ELSE Assign(variant, 1, Len(NodeNames), node_vals, EmptyMap, gene_vals,
              exo_vals)

(***************************************************************************)
(* The solver: _converged and simulate_to_steady_state                     *)
(***************************************************************************)
\* A comparison satisfied as soon as one entry has settled.
ConvergedOnSomeEntry(THRESHOLD, old_vals, new_vals) ==
  \E k \in DOMAIN old_vals : ~(Abs(old_vals[k] - new_vals[k]) > THRESHOLD)

\* _converged(old_vals, new_vals): False as soon as one entry differs by
\* more than THRESHOLD, True otherwise.
Converged(THRESHOLD, old_vals, new_vals) ==
  \A k \in DOMAIN old_vals : ~(Abs(old_vals[k] - new_vals[k]) > THRESHOLD)

\* A guard that compares after the first pass too.
ComparesAtEveryPass(pass) == pass >= 0

\* Whether the pass with t = pass evaluates self._converged: the left
\* operand of `t > 0 and self._converged(prev, current)`.
ComparesAt(pass) == pass > 0

\* The guard of the break: t > 0 and self._converged(prev, current).
BreakGuard(THRESHOLD, pass, old_vals, new_vals) ==
  ComparesAt(pass) /\ Converged(THRESHOLD, old_vals, new_vals)

\* A range that makes one pass too many.
RangeEndInclusive(TMAX) == TMAX + 1

\* range(self.TMAX): the passes are t = 0, ..., RangeEnd(TMAX) - 1.
RangeEnd(TMAX) == TMAX

\* One pass through the body of `for t in range(self.TMAX)`: prev, the new
\* value of current and whether the loop breaks; or step_next raises and
\* the pass is not completed.
LoopBody(variant, THRESHOLD, pass, node_vals, gene_vals, exo_vals) ==
  IF StepRaises(variant, node_vals, gene_vals)
  THEN [ prev |-> node_vals, current |-> node_vals, compared |-> FALSE,
         brk |-> FALSE, raised |-> TRUE ]
  ELSE Only({ [ prev |-> node_vals, current |-> next,
                compared |-> ComparesAt(pass),
                brk |-> BreakGuard(THRESHOLD, pass, node_vals, next),
                raised |-> FALSE ] :
              next \in { step_next(variant, gene_vals, node_vals,
                                   exo_vals) } })

\* The passes t = lo, ..., hi - 1 of the for loop, from the loop state st:
\* the value of current, the number of passes made, whether the loop has
\* broken and whether an exception has left it.  (The range is halved
\* instead of walked, as in Assign.)
RECURSIVE ForLoop(_, _, _, _, _, _, _)
ForLoop(variant, THRESHOLD, lo, hi, st, gene_vals, exo_vals) ==
  IF st.brk \/ st.raised \/ lo >= hi THEN st
  ELSE IF hi = lo + 1
  THEN Only({ [ current |-> b.current,
                passes |-> IF b.raised THEN lo ELSE lo + 1,
                brk |-> b.brk, raised |-> b.raised ] :
              b \in { LoopBody(variant, THRESHOLD, lo, st.current, gene_vals,
                               exo_vals) } })
  ELSE Only({ ForLoop(variant, THRESHOLD, (lo + hi) \div 2, hi, s1,
                      gene_vals, exo_vals) :
              s1 \in { ForLoop(variant, THRESHOLD, lo, (lo + hi) \div 2, st,
                               gene_vals, exo_vals) } })

\* simulate_to_steady_state(gene_vals, node_vals, exo_vals) on a simulator
\* of class `variant` with the fields TMAX and THRESHOLD: the final value of
\* current (returned unless an exception was raised), with the number of
\* passes made.
SolverRun(variant, TMAX, THRESHOLD, gene_vals, node_vals, exo_vals) ==
  ForLoop(variant, THRESHOLD, 0, RangeEnd(TMAX),
          [ current |-> node_vals, passes |-> 0, brk |-> FALSE,
            raised |-> FALSE ],
          gene_vals, exo_vals)

simulate_to_steady_state(variant, TMAX, THRESHOLD, gene_vals, node_vals, exo_vals) ==
  SolverRun(variant, TMAX, THRESHOLD, gene_vals, node_vals, exo_vals).current

(***************************************************************************)
(* A simulator instance and the scenario runner (analysis.py)              *)
(***************************************************************************)
\* PSoupSimulator() / PSoupSimulatorGxE(): the fields of a new instance.
Construct(variant, TMAX, THRESHOLD) ==
  [ variant |-> variant, TMAX |-> TMAX, THRESHOLD |-> THRESHOLD,
    default_gene_vals |-> default_gene_vals,
    default_node_vals |-> default_node_vals,
    default_exo_vals |-> default_exo_vals ]

\* The solver keeping its final state as the instance's initial state.
NodeDefaultsWarmStarted(defaults, final_vals) == final_vals

\* self.default_node_vals after simulate_to_steady_state: the solver works
\* on node_vals = self.default_node_vals.copy() and rebinds current at each
\* pass, the instance's map is not written.
NodeDefaultsAfterSolve(defaults, final_vals) == defaults

\* The scenario's map being the instance's own map instead of a copy.
GeneDefaultsAliased(defaults, gene_vals) == gene_vals

\* sim.default_gene_vals after run_scenario: gene_vals is
\* sim.default_gene_vals.copy(), so the update and the scaling written to
\* gene_vals leave the instance's map as it was.
GeneDefaultsAfterScenario(defaults, gene_vals) == defaults

\* The sucrose level written into the caller's map as well.
ModifiersScaledInPlace(modifiers, gene_vals) ==
  IF "mSUC_n" \in DOMAIN modifiers
  THEN [ modifiers EXCEPT !.mSUC_n = gene_vals.mSUC_n ]
  ELSE modifiers

\* The caller's modifiers after run_scenario: the map is only read, by
\* gene_vals.update(modifiers).
ModifiersAfterScenario(modifiers, gene_vals) == modifiers

\* SUCROSE_LEVELS
SUCROSE_LEVELS == [ low |-> Half, base |-> One, high |-> OneAndHalf ]

\* The order in which simulate_genotype goes through the levels.
LevelNames == << "low", "base", "high" >>

\* gene_vals.update(modifiers): the entries of modifiers replace or extend
\* those of gene_vals.
Update(gene_vals, modifiers) ==
  [ k \in DOMAIN gene_vals \cup DOMAIN modifiers |->
      IF k \in DOMAIN modifiers THEN modifiers[k] ELSE gene_vals[k] ]

\* The sucrose level applied to the default entry, the overrides after it.
GeneValsScaledBeforeOverrides(defaults, modifiers, sucrose_scale) ==
  Update([ defaults EXCEPT !.mSUC_n = Mul(@, sucrose_scale) ], modifiers)

\* The sucrose level added to the entry as an offset from 1.0.
ScenarioGeneValsShifted(defaults, modifiers, sucrose_scale) ==
  LET updated == IF DOMAIN modifiers # {} THEN Update(defaults, modifiers)
                 ELSE defaults
  IN [ updated EXCEPT !.mSUC_n = @ + (sucrose_scale - One) ]

\* The gene map run_scenario builds:
\*   gene_vals = sim.default_gene_vals.copy()
\*   if modifiers: gene_vals.update(modifiers)
\*   gene_vals["mSUC_n"] = gene_vals["mSUC_n"] * sucrose_scale
ScenarioGeneVals(defaults, modifiers, sucrose_scale) ==
  LET updated == IF DOMAIN modifiers # {} THEN Update(defaults, modifiers)
                 ELSE defaults
  IN [ updated EXCEPT !.mSUC_n = Mul(@, sucrose_scale) ]

\* sim.sustained_growth(gene_vals=gene_vals): get_sustained_growth runs
\* simulate_to_steady_state with node_vals and exo_vals left to the
\* instance's defaults and returns final_vals['mSustained_growth'].  The
\* result holds the final map next to the scalar, the instance after the
\* call, and whether the call raised instead of returning.
sustained_growth(s, gene_vals) ==
  Only({ [ final_vals |-> run.current,
           sg_val |-> run.current.mSustained_growth,
           raised |-> run.raised,
           sim |-> [ s EXCEPT !.default_node_vals =
                                 NodeDefaultsAfterSolve(@, run.current) ] ] :
         run \in { SolverRun(s.variant, s.TMAX, s.THRESHOLD, gene_vals,
                             s.default_node_vals, s.default_exo_vals) } })

\* run_scenario(sim, modifiers, sucrose_scale): the value returned (sg_val),
\* with the gene map passed to the solver, the solver's final map, and the
\* instance and the caller's modifiers after the call.
run_scenario(s, modifiers, sucrose_scale) ==
  LET gene_vals == ScenarioGeneVals(s.default_gene_vals, modifiers,
                                    sucrose_scale)
  IN Only({ [ gene_vals |-> gene_vals,
              final_vals |-> r.final_vals,
              sg_val |-> r.sg_val,
              raised |-> r.raised,
              modifiers |-> ModifiersAfterScenario(modifiers, gene_vals),
              sim |-> [ r.sim EXCEPT !.default_gene_vals =
                                    GeneDefaultsAfterScenario(@, gene_vals) ] ] :
            r \in { sustained_growth(s, gene_vals) } })

\* wt_mods = {}
wt_mods == EmptyMap

\* EPS = 1e-3, the magnitude below which a delta is shown as 0.
EPS == SCALE \div 1000

\* The row simulate_genotype returns, from the six values of run_scenario:
\* sg[1..3] for the scenario's modifiers and sg[4..6] for wt_mods, each at
\* low, base, high.
ResultRow(scenario_name, sg) ==
  [ genotype |-> scenario_name,
    sg_low |-> sg[1], sg_base |-> sg[2], sg_high |-> sg[3],
    delta_low_vs_WT |-> sg[1] - sg[4],
    delta_base_vs_WT |-> sg[2] - sg[5],
    delta_high_vs_WT |-> sg[3] - sg[6] ]

\* The key under which run_and_package stores the modifier k.
ParamKey(k) == "param_" \o k

\* Only the defined modifier fields attached to the row.
PackageDefinedFieldsOnly(result_row, modifiers) ==
  [ x \in { ParamKey(k) : k \in DOMAIN modifiers \cap Genes } |->
      modifiers[CHOOSE k \in DOMAIN modifiers : ParamKey(k) = x] ]
    @@ result_row

\* run_and_package after simulate_genotype has returned result_row:
\*   for k, v in modifiers.items(): result_row[f"param_{k}"] = v
Package(result_row, modifiers) ==
  [ x \in { ParamKey(k) : k \in DOMAIN modifiers } |->
      modifiers[CHOOSE k \in DOMAIN modifiers : ParamKey(k) = x] ]
    @@ result_row

\* The six run_scenario calls of simulate_genotype from the n-th on: the
\* scenario's modifiers at low, base, high, then wt_mods at low, base, high.
\* acc holds the instance, the caller's modifiers, the values returned so
\* far and whether a call raised.
RECURSIVE SixRuns(_, _)
SixRuns(acc, n) ==
  IF n > 6 \/ acc.raised
  THEN acc
  ELSE Only({ SixRuns([ sim |-> r.sim,
                        modifiers |-> IF n <= 3 THEN r.modifiers
                                      ELSE acc.modifiers,
                        sg |-> IF r.raised THEN acc.sg
                               ELSE Append(acc.sg, r.sg_val),
                        raised |-> r.raised ], n + 1) :
              r \in { run_scenario(acc.sim,
                                   IF n <= 3 THEN acc.modifiers ELSE wt_mods,
                                   SUCROSE_LEVELS[LevelNames[((n - 1) % 3)
                                                             + 1]]) } })

\* simulate_genotype(sim, scenario_name, modifiers) given the outcome of its
\* six calls: the row returned, unless a call raised.
RowOfRuns(scenario_name, runs) ==
  [ raised |-> runs.raised,
    modifiers |-> runs.modifiers,
    row |-> IF runs.raised THEN EmptyMap
            ELSE ResultRow(scenario_name, runs.sg) ]

simulate_genotype(s, scenario_name, modifiers) ==
  RowOfRuns(scenario_name,
            SixRuns([ sim |-> s, modifiers |-> modifiers, sg |-> << >>,
                      raised |-> FALSE ], 1))

\* run_and_package given what simulate_genotype did.
PackageResult(result) ==
  [ raised |-> result.raised,
    row |-> IF result.raised THEN EmptyMap
            ELSE Package(result.row, result.modifiers) ]

\* run_and_package(sim, name, modifiers)
run_and_package(s, name, modifiers) ==
  PackageResult(simulate_genotype(s, name, modifiers))

\* _clean_delta(val)
clean_delta(val) == IF Abs(val) < EPS THEN Zero ELSE val

\* delta_y of plot_delta_vs_WT_curve_interactive(row)
plot_delta_vs_WT_curve_interactive(row) ==
  [ i \in 1..3 |->
      clean_delta(<< row.delta_low_vs_WT, row.delta_base_vs_WT,
                     row.delta_high_vs_WT >>[i]) ]

\* The clamped values written back into the row.
RowClampedInPlace(row, delta_y) ==
  [ row EXCEPT !.delta_low_vs_WT = delta_y[1],
               !.delta_base_vs_WT = delta_y[2],
               !.delta_high_vs_WT = delta_y[3] ]

\* The row after plot_delta_vs_WT_curve_interactive(row) has built delta_y
\* from it.
RowAfterPlot(row, delta_y) == row

\* delta_y of each trace of make_multi_delta_plot(all_rows)
make_multi_delta_plot(all_rows) ==
  [ i \in DOMAIN all_rows |->
      << all_rows[i].delta_low_vs_WT, all_rows[i].delta_base_vs_WT,
         all_rows[i].delta_high_vs_WT >> ]

\* df_scaling, the frame a page passes to fit_scaling.
DfScaling(rows) ==
  [ i \in DOMAIN rows |->
      [ genotype |-> rows[i].genotype, sg_low |-> rows[i].sg_low,
        sg_base |-> rows[i].sg_base, sg_high |-> rows[i].sg_high ] ]

\* A label that counts the generated rows from one.
AutoNameFromOne(mode, existing_count, i) ==
  "rand_" \o mode \o "_" \o ToString(existing_count + i + 1)

\* auto_name = f"rand_{mode}_{existing_count + i}"
AutoName(mode, existing_count, i) ==
  "rand_" \o mode \o "_" \o ToString(existing_count + i)

(***************************************************************************)
(* parse_modifiers_from_text_inputs (scenarios.py)                         *)
(***************************************************************************)
\* A text is the sequence of its characters.
Whitespace == { " ", "\t" }

Digits == { "0", "1", "2", "3", "4", "5", "6", "7", "8", "9" }

DigitValue(c) ==
  CASE c = "0" -> 0 [] c = "1" -> 1 [] c = "2" -> 2 [] c = "3" -> 3
    [] c = "4" -> 4 [] c = "5" -> 5 [] c = "6" -> 6 [] c = "7" -> 7
    [] c = "8" -> 8 [] c = "9" -> 9

\* str.strip(): the text without its leading and trailing whitespace.
RECURSIVE LStrip(_)
LStrip(v) ==
  IF v # << >> /\ Head(v) \in Whitespace THEN LStrip(Tail(v)) ELSE v

RECURSIVE RStrip(_)
RStrip(v) ==
  IF v # << >> /\ v[Len(v)] \in Whitespace
  THEN RStrip(SubSeq(v, 1, Len(v) - 1))
  ELSE v

strip(v) == RStrip(LStrip(v))

\* The text after an optional sign.
Unsigned(v) ==
  IF v # << >> /\ Head(v) \in { "+", "-" } THEN Tail(v) ELSE v

\* Whether float() accepts the text, for texts over digits, signs, the dot,
\* whitespace and the letters a to c: surrounding whitespace is ignored, a
\* sign may lead, and the rest is digits with at most one dot and at least
\* one digit.  Any other text makes float() raise ValueError.
FloatAccepts(v) ==
  LET u == Unsigned(strip(v))
      dots == { i \in 1..Len(u) : u[i] = "." }
  IN /\ Cardinality(dots) <= 1
     /\ Len(u) > Cardinality(dots)
     /\ \A i \in (1..Len(u)) \ dots : u[i] \in Digits

\* The value of a run of digits as an integer.
RECURSIVE DigitsValue(_)
DigitsValue(ds) ==
  IF ds = << >> THEN 0
  ELSE 10 * DigitsValue(SubSeq(ds, 1, Len(ds) - 1)) + DigitValue(ds[Len(ds)])

\* The value of the digits after the dot, in units of 1/SCALE: six digits
\* are kept and the seventh rounds.
FractionValue(ds) ==
  LET padded == ds \o << "0", "0", "0", "0", "0", "0", "0" >>
  IN DigitsValue(SubSeq(padded, 1, 6))
       + (IF DigitValue(padded[7]) >= 5 THEN 1 ELSE 0)

\* float(v) for a text it accepts.
FloatValue(v) ==
  LET w == strip(v)
      u == Unsigned(w)
      dots == { i \in 1..Len(u) : u[i] = "." }
      dot == IF dots = {} THEN Len(u) + 1 ELSE CHOOSE i \in dots : TRUE
      magnitude == DigitsValue(SubSeq(u, 1, dot - 1)) * SCALE
                     + FractionValue(SubSeq(u, dot + 1, Len(u)))
  IN IF Head(w) = "-" THEN - magnitude ELSE magnitude

\* A malformed text read as 0.0.
OnValueErrorZero(v_clean) == Zero

\* except ValueError: out[k] = 1.0
OnValueError(v_clean) == One

\* The value stored for one field:
\*   v_clean = v.strip()
\*   if v_clean == "": 1.0, else float(v_clean), or 1.0 on ValueError
ParseField(v) ==
  LET v_clean == strip(v)
  IN IF v_clean = << >> THEN One
     ELSE IF FloatAccepts(v_clean) THEN FloatValue(v_clean)
     ELSE OnValueError(v_clean)

\* parse_modifiers_from_text_inputs(raw_mods)
parse_modifiers_from_text_inputs(raw) ==
  [ k \in DOMAIN raw |-> ParseField(raw[k]) ]

(***************************************************************************)
(* State                                                                   *)
(***************************************************************************)
VARIABLES
  \* A caller of step_next: the three maps it passes, where it stands, and
  \* what the two classes' step_next returned for them.
  arg_gene_vals,   \* gene_vals
  arg_node_vals,   \* node_vals, the caller's own map
  arg_exo_vals,    \* exo_vals
  entry_node_vals, \* the value of the caller's map when step_next was entered
  ret_new,         \* [variant |-> the map returned], NoValue before a call
  step_pc,         \* "call": about to call step_next; "ret": it has returned
  feeds,           \* how many returned maps were passed back in as node_vals
  \* One call of simulate_to_steady_state on a simulator.
  sim,             \* the simulator: [variant, TMAX, THRESHOLD]
  sol_gene_vals,   \* gene_vals
  sol_node_vals,   \* node_vals, the initial state passed (or the default)
  sol_exo_vals,    \* exo_vals
  t,               \* the loop variable
  prev,            \* prev (before the first pass: the initial state)
  current,         \* current
  solver_pc,       \* "loop": at the head of the for loop; "done": returned
  broke,           \* the loop was left by break
  applications,    \* how many times step_next was applied
  comparisons,     \* how many times _converged was evaluated
  returned,        \* the map returned (before the return: the initial state)
  \* A session of simulate_genotype calls.
  sims,            \* the simulator instances constructed so far
  call,            \* the call in progress: instance, scenario, runs made
  history,         \* the completed calls, each with the row it returned
  scen_pc,         \* "run": run_scenario calls pending; "row": all six made;
                   \* "done": the row was returned; "raised": an exception
                   \* ended the call
  \* A call of parse_modifiers_from_text_inputs.
  raw_mods,        \* the texts of the fields, each a sequence of characters
  parsed,          \* the map returned
  parse_pc,        \* "call": about to parse; "ret": returned
  \* Draws of the random scenario generators.
  gen_mode,        \* the mode of the last draw
  gen_mods,        \* the override map the last draw produced
  gen_draws,       \* how many maps were drawn
  gen_pc,          \* "draw": nothing drawn yet; "drawn": a map was drawn
  \* A session on one of the two pages.
  page_class,      \* the simulator class of the page
  results_accum,   \* st.session_state["results_accum_..."]
  accum_origin,    \* for each row of results_accum, how it was made:
                   \* the manual run, or the mode, existing_count and i of
                   \* the bulk_generate call
  selected_name,   \* the scenario chosen under "Inspect scenario"
  show_all,        \* the checkbox "Show ALL ... scenarios overlaid"
  fig_delta,       \* the y values of the traces of the delta chart shown
  df_scaling,      \* the frame passed to fit_scaling
  page_pc,         \* how the last run of the script ended: "stopped" by
                   \* st.stop(), "shown" to its end, or "raised"
  \* The scaling fits at the end of a run of the original page's script.
  fit_accum,       \* st.session_state["results_accum_psoup"]
  fit_frame,       \* df_scaling
  fit_results,     \* what fit_scaling returned for the fits made so far
  fit_pc,          \* the fit to make next: "low_base", "base_high",
                   \* "low_high"; "done" after the third
  \* A call of bulk_generate.
  bulk_args,       \* [sim_class, mode, draws, existing_count]
  bulk_rows,       \* the rows returned
  bulk_pc          \* "call": about to call; "ret": returned; "raised"

stepVars ==
  << arg_gene_vals, arg_node_vals, arg_exo_vals, entry_node_vals, ret_new,
     step_pc, feeds >>

solverVars ==
  << sim, sol_gene_vals, sol_node_vals, sol_exo_vals, t, prev, current,
     solver_pc, broke, applications, comparisons, returned >>

scenarioVars == << sims, call, history, scen_pc >>

parseVars == << raw_mods, parsed, parse_pc >>

genVars == << gen_mode, gen_mods, gen_draws, gen_pc >>

pageVars ==
  << page_class, results_accum, accum_origin, selected_name, show_all,
     fig_delta, df_scaling, page_pc >>

fitVars == << fit_accum, fit_frame, fit_results, fit_pc >>

bulkVars == << bulk_args, bulk_rows, bulk_pc >>

vars ==
  << stepVars, solverVars, scenarioVars, parseVars, genVars, pageVars,
     fitVars, bulkVars >>

\* What the actions of one part leave unchanged.
outsideStep ==
  << solverVars, scenarioVars, parseVars, genVars, pageVars, fitVars,
     bulkVars >>

outsideSolver ==
  << stepVars, scenarioVars, parseVars, genVars, pageVars, fitVars,
     bulkVars >>

outsideScenario ==
  << stepVars, solverVars, parseVars, genVars, pageVars, fitVars,
     bulkVars >>

outsideParse ==
  << stepVars, solverVars, scenarioVars, genVars, pageVars, fitVars,
     bulkVars >>

outsideGen ==
  << stepVars, solverVars, scenarioVars, parseVars, pageVars, fitVars,
     bulkVars >>

outsidePage ==
  << stepVars, solverVars, scenarioVars, parseVars, genVars, fitVars,
     bulkVars >>

outsideFit ==
  << stepVars, solverVars, scenarioVars, parseVars, genVars, pageVars,
     bulkVars >>

outsideBulk ==
  << stepVars, solverVars, scenarioVars, parseVars, genVars, pageVars,
     fitVars >>

NoValue == "none"

(***************************************************************************)
(* Inputs of the step_next caller                                          *)
(***************************************************************************)
\* How many times a returned map is passed back in as node_vals.
MaxFeeds == 3

\* The values a modified gene multiplier takes.
StepModifierValues == { Zero, Half, OneAndHalf }

\* Gene maps: the wild type, every map with one multiplier changed, and two
\* with a negative multiplier.
StepGeneChoices ==
  { default_gene_vals } \cup
  { [ default_gene_vals EXCEPT ![k] = v ] :
      k \in Genes, v \in StepModifierValues } \cup
  { [ default_gene_vals EXCEPT !.mSUC_n = - One ],
    [ default_gene_vals EXCEPT !.mCXE_n = - Half ] }

\* Exogenous maps: the default, one with an input on the bud-release node,
\* and one with the same input on every node.
StepExoChoices ==
  { default_exo_vals,
    [ default_exo_vals EXCEPT !.mBud_release = Half ],
    [ k \in Nodes |-> SCALE \div 4 ] }

StepInit ==
  /\ arg_gene_vals \in StepGeneChoices
  /\ arg_exo_vals \in StepExoChoices
  /\ arg_node_vals = default_node_vals
  /\ entry_node_vals = NoValue
  /\ ret_new = NoValue
  /\ step_pc = "call"
  /\ feeds = 0

\* The caller's map after step_next has run: step_next writes only to new,
\* a dict it creates itself, and reads old, its own copy of node_vals.
NodeValsAfterStep(node_vals, new) == node_vals

\* new = step_next(gene_vals, node_vals, exo_vals), for both classes; a
\* ZeroDivisionError in either ends the caller.
CallStepNext ==
  /\ step_pc = "call"
  /\ IF \E v \in Variants : StepRaises(v, arg_node_vals, arg_gene_vals)
     THEN /\ step_pc' = "raised"
          /\ UNCHANGED << entry_node_vals, ret_new, arg_node_vals >>
     ELSE /\ entry_node_vals' = arg_node_vals
          /\ ret_new' = [ v \in Variants |->
                            step_next(v, arg_gene_vals, arg_node_vals,
                                      arg_exo_vals) ]
          /\ arg_node_vals' =
               NodeValsAfterStep(arg_node_vals, ret_new'["Baseline"])
          /\ step_pc' = "ret"
  /\ UNCHANGED << arg_gene_vals, arg_exo_vals, feeds >>
  /\ UNCHANGED outsideStep

\* The caller passes a returned map as the next node_vals, as the solver's
\* loop does (current = self.step_next(gene_vals, current, exo_vals)).
FeedBack(v) ==
  /\ step_pc = "ret"
  /\ feeds < MaxFeeds
  /\ arg_node_vals' = ret_new[v]
  /\ feeds' = feeds + 1
  /\ step_pc' = "call"
  /\ UNCHANGED << arg_gene_vals, arg_exo_vals, entry_node_vals, ret_new >>
  /\ UNCHANGED outsideStep

StepNext ==
  \/ CallStepNext
  \/ \E v \in Variants : FeedBack(v)

(***************************************************************************)
(* A call of simulate_to_steady_state, one pass of its loop at a time      *)
(***************************************************************************)
\* tmax: int = 100 and threshold: float = 1e-4, the constructor's defaults.
DefaultTMAX == 100
DefaultTHRESHOLD == SCALE \div 10000

\* The largest of the small iteration caps a simulator is constructed with.
MaxSmallTMAX == 3

\* Simulators: either class, with a small cap or the default one, and the
\* default threshold or a coarse one.
SolverSims ==
  [ variant : Variants,
    TMAX : (0 .. MaxSmallTMAX) \cup { DefaultTMAX },
    THRESHOLD : { DefaultTHRESHOLD, Half } ]

\* Gene maps passed to the solver.
SolverGeneChoices ==
  { default_gene_vals,
    [ default_gene_vals EXCEPT !.mSUC_n = Half ],
    [ default_gene_vals EXCEPT !.mSUC_n = OneAndHalf ],
    [ default_gene_vals EXCEPT !.mSL_pathway_intact = Zero ],
    [ default_gene_vals EXCEPT !.mAux_n = Zero ],
    [ default_gene_vals EXCEPT !.mD27_n = Zero ],
    [ default_gene_vals EXCEPT !.mCK_n = OneAndHalf, !.mSUC_n = Half ] }

\* Initial states passed to the solver: none (the default), or one with a
\* raised sucrose signal.
SolverNodeChoices ==
  { default_node_vals, [ default_node_vals EXCEPT !.mSUC = Two ] }

\* Exogenous maps passed to the solver.
SolverExoChoices ==
  { default_exo_vals, [ default_exo_vals EXCEPT !.mCK = Half ] }

\* The state on reaching the for loop: current = node_vals.copy().
SolverInit ==
  /\ sim \in SolverSims
  /\ sol_gene_vals \in SolverGeneChoices
  /\ sol_node_vals \in SolverNodeChoices
  /\ sol_exo_vals \in SolverExoChoices
  /\ t = 0
  /\ prev = sol_node_vals
  /\ current = sol_node_vals
  /\ solver_pc = "loop"
  /\ broke = FALSE
  /\ applications = 0
  /\ comparisons = 0
  /\ returned = sol_node_vals

\* One pass of the loop:
\*   prev = current
\*   current = self.step_next(gene_vals, current, exo_vals)
\*   if t > 0 and self._converged(prev, current): break
LoopPass ==
  /\ solver_pc = "loop"
  /\ ~broke
  /\ t < RangeEnd(sim.TMAX)
  /\ \E b \in { LoopBody(sim.variant, sim.THRESHOLD, t, current,
                          sol_gene_vals, sol_exo_vals) } :
         /\ prev' = b.prev
         /\ current' = b.current
         /\ applications' = applications + (IF b.raised THEN 0 ELSE 1)
         /\ comparisons' = comparisons + (IF b.compared THEN 1 ELSE 0)
         /\ broke' = b.brk
         /\ t' = IF b.brk \/ b.raised THEN t ELSE t + 1
         /\ solver_pc' = IF b.raised THEN "raised" ELSE "loop"
  /\ UNCHANGED << sim, sol_gene_vals, sol_node_vals, sol_exo_vals, returned >>
  /\ UNCHANGED outsideSolver

\* return current, once the loop has broken or its range is exhausted.
Return ==
  /\ solver_pc = "loop"
  /\ broke \/ ~(t < RangeEnd(sim.TMAX))
  /\ returned' = current
  /\ solver_pc' = "done"
  /\ UNCHANGED << sim, sol_gene_vals, sol_node_vals, sol_exo_vals, t, prev,
                  current, broke, applications, comparisons >>
  /\ UNCHANGED outsideSolver

SolverNext == LoopPass \/ Return

(***************************************************************************)
(* The solver on a two-node toy network                                    *)
(***************************************************************************)
\* A threshold that is a power of two in the units of the number model. With
\* such a threshold, and constants and gaps that are whole units, binary
\* floating point computes every halving and comparison below exactly.
ToyTHRESHOLD == 64

ToySims ==
  [ variant : { "Toy" },
    TMAX : (0 .. MaxSmallTMAX) \cup { DefaultTMAX },
    THRESHOLD : { DefaultTHRESHOLD, ToyTHRESHOLD } ]

\* The constants of the two nodes, and the fixed point 2 * constant of
\* new = 0.5*old + constant.
ToyConstant == [ x |-> One, y |-> Half ]

ToyFixedPoint == [ k \in DOMAIN ToyConstant |-> 2 * ToyConstant[k] ]

\* Initial distances to the fixed point, chosen so that every halving up to
\* the stop of the loop is exact in the number model: none, below the
\* threshold, the threshold, up to twice the threshold, and well above.
\* The default threshold 1e-4 is no binary fraction, so its gaps keep every
\* compared difference away from the threshold, where rounding would decide.
ToyGaps(THRESHOLD) ==
  IF THRESHOLD = ToyTHRESHOLD
  THEN { 0, 32, 64, 96, 128, 192, 320, 448, 65536 }
  ELSE { 0, 20, 100, 200, 300, 600, 1200, 307200 }

\* Initial states: node x above or below its fixed point by any of the
\* gaps, node y above its fixed point by none, one or three thresholds.
ToyNodeChoices(THRESHOLD) ==
  { [ x |-> ToyFixedPoint.x + sign * gx, y |-> ToyFixedPoint.y + gy ] :
      sign \in { -1, 1 }, gx \in ToyGaps(THRESHOLD),
      gy \in { 0, THRESHOLD, 3 * THRESHOLD } }

\* The state on reaching the for loop of a toy simulator.
ToyInit ==
  /\ sim \in ToySims
  /\ sol_gene_vals = default_gene_vals
  /\ sol_node_vals \in ToyNodeChoices(sim.THRESHOLD)
  /\ sol_exo_vals = ToyConstant
  /\ t = 0
  /\ prev = sol_node_vals
  /\ current = sol_node_vals
  /\ solver_pc = "loop"
  /\ broke = FALSE
  /\ applications = 0
  /\ comparisons = 0
  /\ returned = sol_node_vals

(***************************************************************************)
(* simulate_genotype, called from a page session                           *)
(***************************************************************************)
\* How many simulate_genotype calls a session makes.
MaxCalls == 2

\* The pathway-intact dial.
Dial == "mSL_pathway_intact"

\* A map with the single entry k: v.
Single(k, v) == [ x \in {k} |-> v ]

\* parse_modifiers_from_text_inputs with every field left at 1.0.
AllFieldsOne == [ k \in Genes |-> One ]

\* The modifiers of the scenarios run: none, every field at 1.0, the dial
\* lowered, sucrose overridden (alone and with the dial off), a knockout,
\* every field given with one gene knocked out, every field given with
\* the text "-1" parsed for mSUC_n, and the sucrose modifier knocked out
\* (alone, as _random_mutant_single draws it, and with cytokinin, as
\* _random_mutant_double does).
ScenarioModifierChoices ==
  { EmptyMap,
    AllFieldsOne,
    Single(Dial, Half),
    Single("mSUC_n", Half),
    Update(Single("mSUC_n", OneAndHalf), Single(Dial, Zero)),
    Single("mMAX2_n", Zero),
    [ AllFieldsOne EXCEPT !.mD27_n = Zero ],
    [ AllFieldsOne EXCEPT !.mSUC_n = - One ],
    [ AllFieldsOne EXCEPT !.mSUC_n = Zero ],
    [ AllFieldsOne EXCEPT !.mSUC_n = Zero, !.mCK_n = Zero ] }

ScenarioNames == { "scenario" }

\* A key that is no gene modifier's name, and the value given to it.
UnknownKey == "mXYZ_n"

UnknownKeyValue == Zero

\* The values the dial is moved to between two runs.
DialChoices == { Zero, One }

\* A page constructs a simulator of its class with the default TMAX and
\* THRESHOLD and calls simulate_genotype on it.
NewCall(inst, scenario_name, modifiers) ==
  [ inst |-> inst, scenario_name |-> scenario_name, modifiers |-> modifiers,
    given |-> modifiers, runs |-> << >> ]

ScenarioInit ==
  /\ \E variant \in Variants :
       sims = << Construct(variant, DefaultTMAX, DefaultTHRESHOLD) >>
  /\ \E scenario_name \in ScenarioNames, modifiers \in ScenarioModifierChoices :
       call = NewCall(1, scenario_name, modifiers)
  /\ history = << >>
  /\ scen_pc = "run"

\* The next of the six run_scenario calls of simulate_genotype: the
\* scenario's modifiers at low, base, high, then wt_mods at low, base, high.
\* An exception raised in the solver passes through run_scenario,
\* simulate_genotype and their caller: no row is returned.
RunScenario ==
  /\ scen_pc = "run"
  /\ LET n == Len(call.runs) + 1
         modifiers == IF n <= 3 THEN call.modifiers ELSE wt_mods
         level == LevelNames[((n - 1) % 3) + 1]
     IN \E r \in { run_scenario(sims[call.inst], modifiers,
                                SUCROSE_LEVELS[level]) } :
          IF r.raised
          THEN /\ scen_pc' = "raised"
               /\ UNCHANGED << call, sims >>
          ELSE /\ call' = [ call EXCEPT
                         !.modifiers = IF n <= 3 THEN r.modifiers ELSE @,
                         !.runs =
                           Append(@, [ level |-> level,
                                       modifiers |-> modifiers,
                                       gene_vals |-> r.gene_vals,
                                       final_vals |-> r.final_vals,
                                       sg_val |-> r.sg_val ]) ]
               /\ sims' = [ sims EXCEPT ![call.inst] = r.sim ]
               /\ scen_pc' = IF n = 6 THEN "row" ELSE "run"
  /\ UNCHANGED history
  /\ UNCHANGED outsideScenario

\* The deltas are taken, simulate_genotype returns the row and
\* run_and_package returns it with the param_ entries attached.
ReturnRow ==
  /\ scen_pc = "row"
  /\ \E row \in { ResultRow(call.scenario_name,
                             [ i \in 1..6 |-> call.runs[i].sg_val ]) } :
       history' = Append(history,
                         [ inst |-> call.inst,
                           variant |-> sims[call.inst].variant,
                           modifiers |-> call.given,
                           modifiers_after |-> call.modifiers,
                           runs |-> call.runs,
                           row |-> row,
                           packaged |-> Package(row, call.modifiers) ])
  /\ scen_pc' = "done"
  /\ UNCHANGED << sims, call >>
  /\ UNCHANGED outsideScenario

\* The same scenario is run again on the same instance.
Rerun ==
  /\ scen_pc = "done"
  /\ Len(history) < MaxCalls
  /\ call' = NewCall(call.inst, call.scenario_name, call.modifiers)
  /\ scen_pc' = "run"
  /\ UNCHANGED << sims, history >>
  /\ UNCHANGED outsideScenario

\* The same scenario is run on a newly constructed instance of the class
\* (each button press and bulk_generate construct their own).
RerunOnNewInstance ==
  /\ scen_pc = "done"
  /\ Len(history) < MaxCalls
  /\ sims' = Append(sims, Construct(sims[call.inst].variant, DefaultTMAX,
                                    DefaultTHRESHOLD))
  /\ call' = NewCall(Len(sims) + 1, call.scenario_name, call.modifiers)
  /\ scen_pc' = "run"
  /\ UNCHANGED history
  /\ UNCHANGED outsideScenario

\* The scenario is run again with the dial moved and nothing else changed.
RerunWithDial(v) ==
  /\ scen_pc = "done"
  /\ Len(history) < MaxCalls
  /\ Update(default_gene_vals, call.modifiers)[Dial] # v
  /\ call' = NewCall(call.inst, call.scenario_name,
                     Update(call.modifiers, Single(Dial, v)))
  /\ scen_pc' = "run"
  /\ UNCHANGED << sims, history >>
  /\ UNCHANGED outsideScenario

\* The scenario is run again with an entry added under a key that names no
\* gene modifier.
RerunWithUnknownKey ==
  /\ scen_pc = "done"
  /\ Len(history) < MaxCalls
  /\ UnknownKey \notin DOMAIN call.modifiers
  /\ call' = NewCall(call.inst, call.scenario_name,
                     Update(call.modifiers,
                            Single(UnknownKey, UnknownKeyValue)))
  /\ scen_pc' = "run"
  /\ UNCHANGED << sims, history >>
  /\ UNCHANGED outsideScenario

ScenarioNext ==
  \/ RunScenario
  \/ ReturnRow
  \/ Rerun
  \/ RerunOnNewInstance
  \/ \E v \in DialChoices : RerunWithDial(v)
  \/ RerunWithUnknownKey

(***************************************************************************)
(* Calls of parse_modifiers_from_text_inputs                               *)
(***************************************************************************)
\* How many blanks may precede and follow the text typed into a field.
MaxPad == 2

\* The texts typed, without surrounding whitespace: empty, non-numeric,
\* numbers with and without sign, dot and digits, and near-numbers.
ParseCores ==
  { << >>,
    << "a", "b", "c" >>,
    << "0", ".", "2", "5" >>,
    << "0" >>,
    << "1" >>,
    << "-", "1" >>,
    << "1", ".", "5" >>,
    << "-", "0", ".", "5" >>,
    << ".", "5" >>,
    << "2", "." >>,
    << "+", "1" >>,
    << "1", "0" >>,
    << "-" >>,
    << "." >>,
    << "1", ".", "2", ".", "3" >>,
    << "0", ".", "2", " ", "5" >>,
    << "-", "-", "1" >>,
    << "1", "a" >>,
    << "0", ".", "1", "2", "3", "4", "5", "6", "7" >> }

\* Leading and trailing whitespace: up to MaxPad blanks, or a tab.
Pads == { [ i \in 1..n |-> " " ] : n \in 0..MaxPad } \cup { << "\t" >> }

ParseTexts == { l \o c \o r : l \in Pads, c \in ParseCores, r \in Pads }

\* The fields of a page, all left blank.
AllFieldsBlank == [ k \in Genes |-> << >> ]

\* The maps parsed: no field, one field with any of the texts, and all the
\* fields of a page with one of them filled in.
RawModsChoices ==
  { EmptyMap }
  \cup { Single(k, v) : k \in { "mSUC_n", Dial }, v \in ParseTexts }
  \cup { [ AllFieldsBlank EXCEPT !.mSUC_n = c ] : c \in ParseCores }

ParseInit ==
  /\ raw_mods \in RawModsChoices
  /\ parsed = EmptyMap
  /\ parse_pc = "call"

\* mods_parsed = parse_modifiers_from_text_inputs(raw_modifiers)
Parse ==
  /\ parse_pc = "call"
  /\ parsed' = parse_modifiers_from_text_inputs(raw_mods)
  /\ parse_pc' = "ret"
  /\ UNCHANGED raw_mods
  /\ UNCHANGED outsideParse

ParseNext == Parse

(***************************************************************************)
(* The random scenario generators                                          *)
(***************************************************************************)
\* MODIFIER_FIELDS lists the keys of default_gene_vals, in the same order.
MODIFIER_FIELDS == GeneNames

\* How many maps are drawn one after the other.
MaxDraws == 2

\* random.choice(seq): any one element.
choice(seq) == { seq[i] : i \in DOMAIN seq }

\* Two independent picks, which may be the same element.
sample_with_replacement(seq) ==
  { << seq[q[1]], seq[q[2]] >> : q \in (DOMAIN seq) \X (DOMAIN seq) }

\* random.sample(seq, k=2): any two elements at different positions, in
\* either order.
sample(seq) ==
  { << seq[q[1]], seq[q[2]] >> :
      q \in { r \in (DOMAIN seq) \X (DOMAIN seq) : r[1] # r[2] } }

\* mods = {f: 1.0 for f in MODIFIER_FIELDS}
AllModifiersOne == [ f \in Range(MODIFIER_FIELDS) |-> One ]

\* The maps _random_mutant_single can return.
random_mutant_single ==
  { [ AllModifiersOne EXCEPT ![knocked] = Zero ] :
      knocked \in choice(MODIFIER_FIELDS) }

\* The maps _random_mutant_double can return: the two sampled fields are
\* set to 0.0 one after the other.
random_mutant_double ==
  { [ [ AllModifiersOne EXCEPT ![knocked_two[1]] = Zero ]
        EXCEPT ![knocked_two[2]] = Zero ] :
      knocked_two \in sample(MODIFIER_FIELDS) }

GenInit ==
  /\ gen_mode = NoValue
  /\ gen_mods = EmptyMap
  /\ gen_draws = 0
  /\ gen_pc = "draw"

\* mods = _random_mutant_single()
DrawSingle ==
  /\ gen_draws < MaxDraws
  /\ \E mods \in random_mutant_single : gen_mods' = mods
  /\ gen_mode' = "mutant_single_knockout"
  /\ gen_draws' = gen_draws + 1
  /\ gen_pc' = "drawn"
  /\ UNCHANGED outsideGen

\* mods = _random_mutant_double()
DrawDouble ==
  /\ gen_draws < MaxDraws
  /\ \E mods \in random_mutant_double : gen_mods' = mods
  /\ gen_mode' = "mutant_double_knockout"
  /\ gen_draws' = gen_draws + 1
  /\ gen_pc' = "drawn"
  /\ UNCHANGED outsideGen

GenNext == DrawSingle \/ DrawDouble

(***************************************************************************)
(* A page (pages/01_psoup_original.py, pages/02_psoup_gxe.py)              *)
(***************************************************************************)
\* How many rows a page accumulates, and how many a bulk generation asks
\* for.
MaxRows == 3
MaxBulk == 2

\* The modes of the selectbox "Mode".
BulkModes ==
  { "all_modifiers_change", "sparse_modifiers_change",
    "mutant_single_knockout", "mutant_double_knockout" }

\* The default min_val, max_val and p_change of a page.
PageMinVal == Zero
PageMaxVal == Two
PagePChange == (3 * SCALE) \div 10

\* The values random.random() takes in a session.
RandomUnits == { SCALE \div 4 }

\* random.uniform(a, b) = a + (b - a) * random.random()
uniform(a, b) == { a + Mul(b - a, u) : u \in RandomUnits }

\* The sets of fields a session's draws change or knock out.
PageDrawn == { { "mCK_n" }, { "mSUC_n", "mCK_n" } }

\* _random_all_modifiers(min_val, max_val), with the same draw for every
\* field.
random_all_modifiers(min_val, max_val) ==
  { [ f \in Range(MODIFIER_FIELDS) |-> v ] : v \in uniform(min_val, max_val) }

\* _random_sparse_modifiers(min_val, max_val, p_change): a field is changed
\* when random.random() < p_change.
random_sparse_modifiers(min_val, max_val, p_change) ==
  { [ f \in Range(MODIFIER_FIELDS) |-> IF f \in changed THEN v ELSE One ] :
      changed \in { c \in PageDrawn :
                      /\ Cardinality(c) = 1
                      /\ \E u \in RandomUnits : u < p_change },
      v \in uniform(min_val, max_val) }

\* A dispatch whose last branch draws a single knockout.
ModeDrawsEndingInKnockout(mode, min_val, max_val, p_change) ==
  CASE mode = "all_modifiers_change" ->
         random_all_modifiers(min_val, max_val)
    [] mode = "sparse_modifiers_change" ->
         random_sparse_modifiers(min_val, max_val, p_change)
    [] mode = "mutant_double_knockout" -> random_mutant_double
    [] OTHER -> random_mutant_single

\* The maps the dispatch of bulk_generate can produce for a mode.
ModeDraws(mode, min_val, max_val, p_change) ==
  CASE mode = "all_modifiers_change" ->
         random_all_modifiers(min_val, max_val)
    [] mode = "sparse_modifiers_change" ->
         random_sparse_modifiers(min_val, max_val, p_change)
    [] mode = "mutant_single_knockout" -> random_mutant_single
    [] mode = "mutant_double_knockout" -> random_mutant_double
    [] OTHER -> { AllModifiersOne }

\* The maps drawn in a session, for each mode.
PageDraws ==
  [ mode \in BulkModes |->
      { m \in ModeDraws(mode, PageMinVal, PageMaxVal, PagePChange) :
          mode \in { "mutant_single_knockout", "mutant_double_knockout" }
            => { f \in DOMAIN m : m[f] = Zero } \in PageDrawn } ]

\* The scenario names typed: the default of the original page, and a name
\* that looks like a generated one.
PageNames == { "my_scenario_orig", "rand_mutant_single_knockout_0" }

\* The texts of the modifier fields: all blank, one multiplier just below
\* 1, one an order of magnitude further away, and mSUC_n at -1.
PageRawChoices ==
  { AllFieldsBlank,
    [ AllFieldsBlank EXCEPT !.mBRC1_2_n = << "0", ".", "9", "9", "9" >> ],
    [ AllFieldsBlank EXCEPT !.mSUC_n = << "-", "1" >> ] }

\* sim = PSoupSimulator() / sim = sim_class()
PageSim(variant) == Construct(variant, DefaultTMAX, DefaultTHRESHOLD)

\* The override maps of a session.
PageModifiers ==
  { parse_modifiers_from_text_inputs(raw) : raw \in PageRawChoices }
    \cup UNION { PageDraws[mode] : mode \in BulkModes }

\* The six calls simulate_genotype makes on a new instance, for each class
\* and each override map of a session.
PageRuns ==
  { [ variant |-> variant, modifiers |-> modifiers,
      runs |-> SixRuns([ sim |-> PageSim(variant), modifiers |-> modifiers,
                         sg |-> << >>, raised |-> FALSE ], 1) ] :
      variant \in Variants, modifiers \in PageModifiers }

\* run_and_package(sim, name, modifiers) on a new instance of the class,
\* for an override map of a session.
RunOnNew(variant, name, modifiers) ==
  PackageResult(
    RowOfRuns(name, (CHOOSE e \in PageRuns : /\ e.variant = variant
                                             /\ e.modifiers = modifiers).runs))

\* The loop of bulk_generate from i on, draws[i + 1] being the map drawn in
\* pass i: the rows, unless a pass raised.
RECURSIVE BulkRows(_, _, _, _, _)
BulkRows(sim_class, mode, draws, existing_count, i) ==
  IF i >= Len(draws)
  THEN [ raised |-> FALSE, rows |-> << >> ]
  ELSE LET r == RunOnNew(sim_class, AutoName(mode, existing_count, i),
                         draws[i + 1])
           rest == BulkRows(sim_class, mode, draws, existing_count, i + 1)
       IN IF r.raised \/ rest.raised
          THEN [ raised |-> TRUE, rows |-> << >> ]
          ELSE [ raised |-> FALSE, rows |-> << r.row >> \o rest.rows ]

\* bulk_generate(sim_class, mode, n, ..., existing_count) with n = Len(draws)
bulk_generate(sim_class, mode, draws, existing_count) ==
  BulkRows(sim_class, mode, draws, existing_count, 0)

\* A page that numbers the rows of every bulk generation from 0.
ExistingCountZero(accum) == 0

\* existing_count=len(st.session_state["results_accum_..."])
ExistingCount(accum) == Len(accum)

\* The selectbox keeps its value while it is among the options, and falls
\* back to the first option otherwise.
Selection(rows, selected) ==
  IF \E i \in DOMAIN rows : rows[i].genotype = selected
  THEN selected
  ELSE rows[1].genotype

\* sel_row: the first row with the selected name.
SelRow(rows, selected) ==
  CHOOSE i \in DOMAIN rows :
    /\ rows[i].genotype = selected
    /\ \A j \in 1..(i - 1) : rows[j].genotype # selected

\* The script from the table of scenarios to its end, with `rows`
\* accumulated: it stops when there are none, and shows the delta chart of
\* the selected row or of all rows, and the scaling frame, otherwise.
Render(rows, selected, overlaid) ==
  IF Len(rows) = 0
  THEN /\ results_accum' = rows
       /\ selected_name' = NoValue
       /\ show_all' = FALSE
       /\ fig_delta' = << >>
       /\ df_scaling' = << >>
       /\ page_pc' = "stopped"
  ELSE \E sel \in { Selection(rows, selected) } :
       \E i \in { SelRow(rows, sel) } :
       \E delta_y \in { plot_delta_vs_WT_curve_interactive(rows[i]) } :
       \E shown \in { IF overlaid THEN rows
                       ELSE [ rows EXCEPT ![i] = RowAfterPlot(@, delta_y) ] } :
         /\ results_accum' = shown
         /\ selected_name' = sel
         /\ show_all' = overlaid
         /\ fig_delta' = IF overlaid THEN make_multi_delta_plot(rows)
                         ELSE << delta_y >>
         /\ df_scaling' = DfScaling(shown)
         /\ page_pc' = "shown"

\* An exception ends the run of the script: nothing below is shown.
Raise ==
  /\ selected_name' = NoValue
  /\ show_all' = FALSE
  /\ fig_delta' = << >>
  /\ df_scaling' = << >>
  /\ page_pc' = "raised"
  /\ UNCHANGED << results_accum, accum_origin >>

\* The first run of the script in a session: results_accum is set to [].
PageInit ==
  /\ page_class \in Variants
  /\ results_accum = << >>
  /\ accum_origin = << >>
  /\ selected_name = NoValue
  /\ show_all = FALSE
  /\ fig_delta = << >>
  /\ df_scaling = << >>
  /\ page_pc = "stopped"

\* The button "Run scenario".
PressRun ==
  /\ Len(results_accum) < MaxRows
  /\ \E scenario_name \in PageNames, raw_modifiers \in PageRawChoices :
     \E r \in { RunOnNew(page_class, scenario_name,
                          parse_modifiers_from_text_inputs(raw_modifiers)) } :
       IF r.raised
       THEN Raise
       ELSE /\ accum_origin' = Append(accum_origin, [ by |-> "manual" ])
            /\ Render(Append(results_accum, r.row), selected_name, show_all)
  /\ UNCHANGED page_class
  /\ UNCHANGED outsidePage

\* The button "Generate bulk".
PressBulk ==
  /\ \E bulk_mode \in BulkModes, num_random \in 1..MaxBulk :
       /\ Len(results_accum) + num_random <= MaxRows
       /\ \E draws \in [ 1..num_random -> PageDraws[bulk_mode] ] :
          \E existing_count \in { ExistingCount(results_accum) } :
          \E new \in { bulk_generate(page_class, bulk_mode, draws,
                                      existing_count) } :
            IF new.raised
            THEN Raise
            ELSE /\ accum_origin' =
                      accum_origin \o
                        [ i \in 1..num_random |->
                            [ by |-> "bulk", mode |-> bulk_mode,
                              existing_count |-> existing_count,
                              i |-> i - 1 ] ]
                 /\ Render(results_accum \o new.rows, selected_name,
                           show_all)
  /\ UNCHANGED page_class
  /\ UNCHANGED outsidePage

\* The button "Reset ... scenarios".
PressReset ==
  /\ Len(results_accum) > 0
  /\ accum_origin' = << >>
  /\ Render(<< >>, selected_name, show_all)
  /\ UNCHANGED page_class
  /\ UNCHANGED outsidePage

\* Another scenario is chosen under "Inspect scenario".
SelectScenario ==
  /\ page_pc = "shown"
  /\ \E i \in DOMAIN results_accum :
       /\ results_accum[i].genotype # selected_name
       /\ Render(results_accum, results_accum[i].genotype, show_all)
  /\ UNCHANGED << page_class, accum_origin >>
  /\ UNCHANGED outsidePage

\* The checkbox "Show ALL ... scenarios overlaid" is ticked or cleared.
ToggleShowAll ==
  /\ page_pc = "shown"
  /\ Render(results_accum, selected_name, ~ show_all)
  /\ UNCHANGED << page_class, accum_origin >>
  /\ UNCHANGED outsidePage

PageNext ==
  \/ PressRun
  \/ PressBulk
  \/ PressReset
  \/ SelectScenario
  \/ ToggleShowAll

(***************************************************************************)
(* fit_scaling (analysis.py), called for the three scaling plots of a page *)
(***************************************************************************)
\* seq[lo] + ... + seq[hi], the range being halved.
RECURSIVE SumOver(_, _, _)
SumOver(seq, lo, hi) ==
  IF lo > hi THEN 0
  ELSE IF lo = hi THEN seq[lo]
  ELSE SumOver(seq, lo, (lo + hi) \div 2)
         + SumOver(seq, ((lo + hi) \div 2) + 1, hi)

\* The mean of a column, rounded to the nearest unit.
Mean(seq) == (2 * SumOver(seq, 1, Len(seq)) + Len(seq)) \div (2 * Len(seq))

\* A fit that scores against the fitted values' own mean squares instead of
\* the residuals: 1 - sum((pred - mean)^2) / sum((y - mean)^2).
score_of_explained_part(y, pred) ==
  LET y_mean == Mean(y)
      ss_exp == SumOver([ i \in DOMAIN y |->
                            Mul(pred[i] - y_mean, pred[i] - y_mean) ],
                        1, Len(y))
      ss_tot == SumOver([ i \in DOMAIN y |->
                            Mul(y[i] - y_mean, y[i] - y_mean) ], 1, Len(y))
  IN  One - Div(ss_exp, ss_tot)

\* model.score(X, y): R^2 = 1 - sum((y - pred)^2) / sum((y - mean(y))^2)
score(y, pred) ==
  LET y_mean == Mean(y)
      ss_res == SumOver([ i \in DOMAIN y |->
                            Mul(y[i] - pred[i], y[i] - pred[i]) ],
                        1, Len(y))
      ss_tot == SumOver([ i \in DOMAIN y |->
                            Mul(y[i] - y_mean, y[i] - y_mean) ], 1, Len(y))
  IN  One - Div(ss_res, ss_tot)

\* LinearRegression().fit(X, y) for one column X: the least-squares slope
\* and intercept.
LinearRegression(X, y) ==
  LET x_mean == Mean(X)
      y_mean == Mean(y)
      sxy == SumOver([ i \in DOMAIN X |->
                         Mul(X[i] - x_mean, y[i] - y_mean) ], 1, Len(X))
      sxx == SumOver([ i \in DOMAIN X |->
                         Mul(X[i] - x_mean, X[i] - x_mean) ], 1, Len(X))
  IN  Only({ [ coef |-> slope, intercept |-> y_mean - Mul(slope, x_mean) ] :
             slope \in { Div(sxy, sxx) } })

\* fit_scaling(df_scaling, xcol, ycol): slope, intercept and R^2.
fit_scaling(frame, xcol, ycol) ==
  LET X == [ i \in DOMAIN frame |-> frame[i][xcol] ]
      y == [ i \in DOMAIN frame |-> frame[i][ycol] ]
  IN  Only({ [ slope |-> model.coef, intercept |-> model.intercept,
               r2 |-> score(y, [ i \in DOMAIN X |->
                                   Mul(model.coef, X[i])
                                     + model.intercept ]) ] :
             model \in { LinearRegression(X, y) } })

\* The most sparse rows in a frame.
MaxSparseRows == 4

\* The override maps behind the rows of a frame: every single knockout, and
\* sparse draws that change no field, only mAux_n or only mCK_n.
FitSparseDraws ==
  { AllModifiersOne } \cup
  { [ AllModifiersOne EXCEPT ![f] = v ] :
      f \in { "mAux_n", "mCK_n" }, v \in uniform(PageMinVal, PageMaxVal) }

FitModifiers == random_mutant_single \cup FitSparseDraws

\* run_and_package on a new instance of the class, for each of these maps.
FitRuns(variant) ==
  { [ modifiers |-> modifiers,
      result |-> run_and_package(PageSim(variant), "", modifiers) ] :
      modifiers \in FitModifiers }

\* The row bulk_generate returns for a map in pass i.
FitRow(runs, mode, existing_count, i, modifiers) ==
  [ (CHOOSE e \in runs : e.modifiers = modifiers).result.row
      EXCEPT !.genotype = AutoName(mode, existing_count, i) ]

\* results_accum after a bulk generation of the 27 single knockouts, each
\* drawn once, in the order of MODIFIER_FIELDS.
FitKnockoutRows(runs) ==
  [ i \in DOMAIN MODIFIER_FIELDS |->
      FitRow(runs, "mutant_single_knockout", 0, i - 1,
             [ AllModifiersOne EXCEPT ![MODIFIER_FIELDS[i]] = Zero ]) ]

\* The rows a following bulk generation in mode sparse_modifiers_change
\* appends for the maps drawn.
FitSparseRows(runs, draws) ==
  [ i \in DOMAIN draws |->
      FitRow(runs, "sparse_modifiers_change", Len(MODIFIER_FIELDS), i - 1,
             draws[i]) ]

\* The sequences of sparse draws: enough for 30 rows, up to MaxSparseRows.
FitDrawSeqs ==
  UNION { [ 1..n -> FitSparseDraws ] :
            n \in (30 - Len(MODIFIER_FIELDS)) .. MaxSparseRows }

\* The original page has accumulated the knockout rows and sparse rows and
\* builds df_scaling from them.
FitInit ==
  /\ \E runs \in { FitRuns("Baseline") } :
       fit_accum \in { FitKnockoutRows(runs) \o FitSparseRows(runs, draws) :
                         draws \in FitDrawSeqs }
  /\ fit_frame = DfScaling(fit_accum)
  /\ fit_results = << >>
  /\ fit_pc = "low_base"

\* The three columns of the page, each calling
\* make_scaling_fig(df_scaling, xcol, ycol, ...), which starts with
\* slope, intercept, r2, line_df = fit_scaling(df_scaling, xcol, ycol).
FitLowBase ==
  /\ fit_pc = "low_base"
  /\ fit_results' = Append(fit_results,
                           fit_scaling(fit_frame, "sg_low", "sg_base"))
  /\ fit_pc' = "base_high"
  /\ UNCHANGED << fit_accum, fit_frame >>
  /\ UNCHANGED outsideFit

FitBaseHigh ==
  /\ fit_pc = "base_high"
  /\ fit_results' = Append(fit_results,
                           fit_scaling(fit_frame, "sg_base", "sg_high"))
  /\ fit_pc' = "low_high"
  /\ UNCHANGED << fit_accum, fit_frame >>
  /\ UNCHANGED outsideFit

FitLowHigh ==
  /\ fit_pc = "low_high"
  /\ fit_results' = Append(fit_results,
                           fit_scaling(fit_frame, "sg_low", "sg_high"))
  /\ fit_pc' = "done"
  /\ UNCHANGED << fit_accum, fit_frame >>
  /\ UNCHANGED outsideFit

FitNext == FitLowBase \/ FitBaseHigh \/ FitLowHigh

(***************************************************************************)
(* Calls of bulk_generate (scenarios.py), one pass of its loop at a time   *)
(***************************************************************************)
\* Mode strings that are none of the four modes: the empty string, a name
\* of no mode, and a mode's name in other letter case.
UnknownModes == { "", "wild_type", "Mutant_Single_Knockout" }

\* The maps a pass draws for the call's mode, among those of a session.
BulkDraws(args) ==
  { m \in ModeDraws(args.mode, args.min_val, args.max_val, args.p_change) :
      m \in PageModifiers }

\* bulk_generate(sim_class, mode, n, min_val, max_val, p_change,
\* existing_count) is entered: rows = []
BulkInit ==
  /\ \E sim_class \in Variants, mode \in BulkModes \cup UnknownModes,
        n \in 0..MaxBulk, existing_count \in 0..MaxRows :
       bulk_args = [ sim_class |-> sim_class, mode |-> mode, n |-> n,
                     min_val |-> PageMinVal, max_val |-> PageMaxVal,
                     p_change |-> PagePChange,
                     existing_count |-> existing_count ]
  /\ bulk_rows = << >>
  /\ bulk_pc = "loop"

\* Pass i of for i in range(n): the mode's draw (all 27 fields at 1.0 in the
\* else branch), a new instance, the label, run_and_package, rows.append.
\* An exception raised in the run leaves bulk_generate.
BulkPass ==
  /\ bulk_pc = "loop"
  /\ Len(bulk_rows) < bulk_args.n
  /\ \E mods \in BulkDraws(bulk_args) :
     \E r \in { RunOnNew(bulk_args.sim_class,
                          AutoName(bulk_args.mode, bulk_args.existing_count,
                                   Len(bulk_rows)),
                          mods) } :
       IF r.raised
       THEN /\ bulk_pc' = "raised"
            /\ UNCHANGED bulk_rows
       ELSE /\ bulk_rows' = Append(bulk_rows, r.row)
            /\ UNCHANGED bulk_pc
  /\ UNCHANGED bulk_args
  /\ UNCHANGED outsideBulk

\* return rows
BulkReturn ==
  /\ bulk_pc = "loop"
  /\ Len(bulk_rows) >= bulk_args.n
  /\ bulk_pc' = "returned"
  /\ UNCHANGED << bulk_args, bulk_rows >>
  /\ UNCHANGED outsideBulk

BulkNext == BulkPass \/ BulkReturn

(***************************************************************************)
(* Specifications                                                          *)
(***************************************************************************)
\* The part of the state a specification does not use stays as it is here.
StepIdle ==
  /\ arg_gene_vals = default_gene_vals
  /\ arg_node_vals = default_node_vals
  /\ arg_exo_vals = default_exo_vals
  /\ entry_node_vals = NoValue
  /\ ret_new = NoValue
  /\ step_pc = "idle"
  /\ feeds = 0

SolverIdle ==
  /\ sim = [ variant |-> "Baseline", TMAX |-> DefaultTMAX,
             THRESHOLD |-> DefaultTHRESHOLD ]
  /\ sol_gene_vals = default_gene_vals
  /\ sol_node_vals = default_node_vals
  /\ sol_exo_vals = default_exo_vals
  /\ t = 0
  /\ prev = default_node_vals
  /\ current = default_node_vals
  /\ solver_pc = "idle"
  /\ broke = FALSE
  /\ applications = 0
  /\ comparisons = 0
  /\ returned = default_node_vals

ScenarioIdle ==
  /\ sims = << >>
  /\ call = NewCall(0, "", EmptyMap)
  /\ history = << >>
  /\ scen_pc = "idle"

ParseIdle ==
  /\ raw_mods = EmptyMap
  /\ parsed = EmptyMap
  /\ parse_pc = "idle"

GenIdle ==
  /\ gen_mode = NoValue
  /\ gen_mods = EmptyMap
  /\ gen_draws = 0
  /\ gen_pc = "idle"

PageIdle ==
  /\ page_class = "Baseline"
  /\ results_accum = << >>
  /\ accum_origin = << >>
  /\ selected_name = NoValue
  /\ show_all = FALSE
  /\ fig_delta = << >>
  /\ df_scaling = << >>
  /\ page_pc = "idle"

FitIdle ==
  /\ fit_accum = << >>
  /\ fit_frame = << >>
  /\ fit_results = << >>
  /\ fit_pc = "idle"

BulkIdle ==
  /\ bulk_args = NoValue
  /\ bulk_rows = << >>
  /\ bulk_pc = "idle"

\* The parts a specification does not use.
IdleOutsideStep ==
  /\ SolverIdle /\ ScenarioIdle /\ ParseIdle /\ GenIdle /\ PageIdle
  /\ FitIdle /\ BulkIdle

IdleOutsideSolver ==
  /\ StepIdle /\ ScenarioIdle /\ ParseIdle /\ GenIdle /\ PageIdle
  /\ FitIdle /\ BulkIdle

IdleOutsideScenario ==
  /\ StepIdle /\ SolverIdle /\ ParseIdle /\ GenIdle /\ PageIdle
  /\ FitIdle /\ BulkIdle

IdleOutsideParse ==
  /\ StepIdle /\ SolverIdle /\ ScenarioIdle /\ GenIdle /\ PageIdle
  /\ FitIdle /\ BulkIdle

IdleOutsideGen ==
  /\ StepIdle /\ SolverIdle /\ ScenarioIdle /\ ParseIdle /\ PageIdle
  /\ FitIdle /\ BulkIdle

IdleOutsidePage ==
  /\ StepIdle /\ SolverIdle /\ ScenarioIdle /\ ParseIdle /\ GenIdle
  /\ FitIdle /\ BulkIdle

IdleOutsideFit ==
  /\ StepIdle /\ SolverIdle /\ ScenarioIdle /\ ParseIdle /\ GenIdle
  /\ PageIdle /\ BulkIdle

IdleOutsideBulk ==
  /\ StepIdle /\ SolverIdle /\ ScenarioIdle /\ ParseIdle /\ GenIdle
  /\ PageIdle /\ FitIdle

\* Callers of step_next.
SpecStepInit == StepInit /\ IdleOutsideStep
SpecStep == SpecStepInit /\ [][StepNext]_vars

\* Calls of simulate_to_steady_state.
SpecSolverInit == SolverInit /\ IdleOutsideSolver
SpecSolver == SpecSolverInit /\ [][SolverNext]_vars

\* Sessions of simulate_genotype calls.
SpecScenarioInit == ScenarioInit /\ IdleOutsideScenario
SpecScenario == SpecScenarioInit /\ [][ScenarioNext]_vars

\* Calls of parse_modifiers_from_text_inputs.
SpecParseInit == ParseInit /\ IdleOutsideParse
SpecParse == SpecParseInit /\ [][ParseNext]_vars

\* Repeated draws of the knockout generators.
SpecGenInit == GenInit /\ IdleOutsideGen
SpecGen == SpecGenInit /\ [][GenNext]_vars

\* Calls of simulate_to_steady_state on a toy network.
SpecToyInit == ToyInit /\ IdleOutsideSolver
SpecToy == SpecToyInit /\ [][SolverNext]_vars

\* Sessions on a page.
SpecPageInit == PageInit /\ IdleOutsidePage
SpecPage == SpecPageInit /\ [][PageNext]_vars

\* The scaling fits of the original page.
SpecFitInit == FitInit /\ IdleOutsideFit
SpecFit == SpecFitInit /\ [][FitNext]_vars

SpecBulkInit == BulkInit /\ IdleOutsideBulk
SpecBulk == SpecBulkInit /\ [][BulkNext]_vars

(***************************************************************************)
(* Claims about step_next (specification SpecStep)                         *)
(***************************************************************************)
\* C1: in both classes every entry of the map step_next returns is its
\* rule evaluated on the caller's node_vals as it was on entry (with
\* gene_vals and exo_vals), never on an entry stored earlier in the same
\* call; the returned map has the 32 node keys; and the caller's node_vals
\* is the same after the call as before.
C1_StepReadsOnlySnapshot ==
  step_pc = "ret" =>
    /\ arg_node_vals = entry_node_vals
    /\ DOMAIN ret_new["Baseline"] = Nodes
    /\ DOMAIN ret_new["GxE"] = Nodes
    /\ \A k \in Nodes :
         /\ ret_new["Baseline"][k] =
              EqBaseline(k, entry_node_vals, arg_gene_vals, arg_exo_vals)
         /\ ret_new["GxE"][k] =
              EqGxE(k, entry_node_vals, arg_gene_vals, arg_exo_vals)

\* C1 witness: a call on a fed-back state in which mSL changes and
\* mPerception_SL, assigned after it, would have come out differently had it
\* read the new mSL.
C1_Witness ==
  /\ step_pc = "ret"
  /\ feeds >= 1
  /\ ret_new["Baseline"].mSL # entry_node_vals.mSL
  /\ ret_new["Baseline"].mPerception_SL #
       EqBaseline("mPerception_SL",
                  [ entry_node_vals EXCEPT !.mSL = ret_new["Baseline"].mSL ],
                  arg_gene_vals, arg_exo_vals)

\* C7: the bud-release entry returned by PSoupSimulatorGxE.step_next is
\* 2*growth_drive/(1 + ABA_brake + SL_brake_effective) plus the bud-release
\* exogenous input, with base_drive = (mSUC + mCK)/2, suc_relief =
\* mSUC/(1 + mSUC), hormonal_bonus = 0.5*mSL_pathway_intact*suc_relief,
\* growth_drive = base_drive*(1 + hormonal_bonus), ABA_brake =
\* (mABA + mBRC1_2)/2 and SL_brake_effective =
\* mPerception_SL*mSL_pathway_intact*(1 - suc_relief), all read from the
\* previous snapshot.
C7_GxEBudRelease ==
  step_pc = "ret" =>
    LET snap == entry_node_vals
        dial == arg_gene_vals.mSL_pathway_intact
        c7_base_drive == Div(snap.mSUC + snap.mCK, Two)
        c7_suc_relief == Div(snap.mSUC, One + snap.mSUC)
        c7_hormonal_bonus == Mul(Mul(Half, dial), c7_suc_relief)
        c7_growth_drive == Mul(c7_base_drive, One + c7_hormonal_bonus)
        c7_ABA_brake == Div(snap.mABA + snap.mBRC1_2, Two)
        c7_SL_brake == Mul(Mul(snap.mPerception_SL, dial), One - c7_suc_relief)
    IN  ret_new["GxE"].mBud_release =
          Div(Mul(Two, c7_growth_drive), One + c7_ABA_brake + c7_SL_brake)
            + arg_exo_vals.mBud_release

\* C7 witness: a call with the dial at one half, a sucrose signal other
\* than 1, a nonzero SL perception and a nonzero bud-release input.
C7_Witness ==
  /\ step_pc = "ret"
  /\ feeds >= 1
  /\ arg_gene_vals.mSL_pathway_intact = Half
  /\ entry_node_vals.mSUC # One
  /\ entry_node_vals.mPerception_SL > Zero
  /\ arg_exo_vals.mBud_release # Zero

\* C8: for the same previous state, gene map and exogenous map the two
\* classes' step_next return the same value for every node other than
\* mBud_release.
C8_VariantsAgreeOffBudRelease ==
  step_pc = "ret" =>
    \A k \in Nodes \ { "mBud_release" } :
      ret_new["Baseline"][k] = ret_new["GxE"][k]

\* C8 witness: a call on a fed-back state with a modified multiplier for
\* which the two classes return different bud-release values.
C8_Witness ==
  /\ step_pc = "ret"
  /\ feeds >= 1
  /\ arg_gene_vals # default_gene_vals
  /\ entry_node_vals # default_node_vals
  /\ ret_new["Baseline"].mBud_release # ret_new["GxE"].mBud_release

(***************************************************************************)
(* Claims about simulate_to_steady_state (specification SpecSolver)        *)
(***************************************************************************)
\* The maximum absolute difference between two states over all entries.
MaxAbsDiff(a, b) ==
  LET diffs == { Abs(a[k] - b[k]) : k \in Nodes }
  IN  CHOOSE m \in diffs : \A d \in diffs : d <= m

\* C2: after the first application of step_next no convergence comparison
\* has been made and the loop has not broken; after every later application
\* one comparison has been made per application past the first; if, after
\* such a later application, the maximum absolute difference between the
\* previous and the new state is below THRESHOLD, the loop has broken; once
\* it has broken no further step is applied and the new state is what is
\* returned.
C2_ComparesAfterFirstPassOnly ==
  /\ [](/\ (applications = 1 => comparisons = 0 /\ ~broke)
        /\ (applications >= 1 => comparisons = applications - 1)
        /\ (applications >= 2 /\ MaxAbsDiff(prev, current) < sim.THRESHOLD
              => broke)
        /\ (broke /\ solver_pc = "done" => returned = current))
  /\ [][broke => applications' = applications /\ current' = current]_vars

\* C2 witness: a run from the all-ones fixed point: the first application
\* changes nothing yet is followed by a second, after which the comparison
\* succeeds and the solver returns, well before the cap.
C2_Witness ==
  /\ solver_pc = "done"
  /\ broke
  /\ applications = 2
  /\ applications < sim.TMAX
  /\ prev = sol_node_vals
  /\ MaxAbsDiff(prev, current) < sim.THRESHOLD
  /\ returned = current

\* C3: the solver always returns after at most TMAX applications of
\* step_next: the count never exceeds TMAX, every step of the solver is one
\* more application or the return, and the loop index t stays within the
\* range.  If no convergence comparison succeeded it has applied
\* step_next exactly TMAX times and returns the state the last application
\* produced.  What it returns is a map over the node names and nothing else.
C3_TerminatesWithinTMAX ==
  /\ [](/\ applications <= sim.TMAX
        /\ t <= applications
        /\ (solver_pc = "done" =>
              /\ (~broke => applications = sim.TMAX)
              /\ returned = current
              /\ DOMAIN returned = Nodes))
  /\ [][\/ applications' = applications + 1 /\ solver_pc' = "loop"
        \/ applications' = applications /\ solver_pc' = "done"]_vars

\* C3 witness: a run that returns at the cap without having converged.
C3_Witness ==
  /\ solver_pc = "done"
  /\ ~broke
  /\ sim.TMAX >= 2
  /\ applications = sim.TMAX
  /\ MaxAbsDiff(prev, current) > sim.THRESHOLD


(***************************************************************************)
(* Claims about simulate_genotype (specification SpecScenario)             *)
(***************************************************************************)
\* The run_scenario calls made so far, completed calls and the one in
\* progress alike, each with the class it ran on.
AllRuns ==
  { [ variant |-> h.variant, inst |-> h.inst, run |-> h.runs[i] ] :
      h \in Range(history), i \in 1..6 }
  \cup { [ variant |-> sims[call.inst].variant, inst |-> call.inst,
           run |-> call.runs[i] ] : i \in 1..Len(call.runs) }

\* C4: two solver runs for the same variant, the same modifier overrides
\* and the same sucrose scale return the same steady state, entry for
\* entry, whether they ran on the same instance or on two instances
\* constructed separately.
C4_RunsAreDeterministic ==
  \A a, b \in AllRuns :
    ( /\ a.variant = b.variant
      /\ a.run.modifiers = b.run.modifiers
      /\ a.run.level = b.run.level )
    => \A k \in Nodes : a.run.final_vals[k] = b.run.final_vals[k]

\* C4 witness: a scenario with overrides was run twice on one instance and
\* its wild-type runs were repeated too; the steady states are equal, and
\* those at low and at high sucrose are not the initial state.
C4_Witness ==
  /\ Len(history) = 2
  /\ history[1].inst = history[2].inst
  /\ history[1].modifiers = history[2].modifiers
  /\ history[1].modifiers # EmptyMap
  /\ \A i \in 1..6 :
       history[1].runs[i].final_vals = history[2].runs[i].final_vals
  /\ history[1].runs[1].final_vals # default_node_vals
  /\ history[1].runs[6].final_vals # default_node_vals

\* C5: for both variants a simulate_genotype call with an empty override
\* map returns a row whose three deltas are exactly 0.
C5_SelfDeltaIsZero ==
  \A h \in Range(history) :
    h.modifiers = EmptyMap =>
      /\ h.row.delta_low_vs_WT = Zero
      /\ h.row.delta_base_vs_WT = Zero
      /\ h.row.delta_high_vs_WT = Zero

\* C5 witness: the GxE class returned a row for the empty override map, its
\* sustained growth differing between the sucrose levels, its deltas 0.
C5_Witness ==
  /\ scen_pc = "done"
  /\ Len(history) = 1
  /\ history[1].variant = "GxE"
  /\ history[1].modifiers = EmptyMap
  /\ history[1].row.sg_low < history[1].row.sg_base
  /\ history[1].row.sg_base < history[1].row.sg_high
  /\ history[1].row.delta_low_vs_WT = Zero
  /\ history[1].row.delta_high_vs_WT = Zero

\* C6: at each sucrose scale s the row's sg value is the solver's sustained
\* growth for the default gene map overlaid with the overrides and then
\* with mSUC_n multiplied by s (the override first, the scale after), and
\* the row's delta is that value minus the solver's sustained growth for
\* the unmodified default map with mSUC_n multiplied by the same s, run on
\* the same instance.  In the state where a row has just been returned the
\* six values are recomputed from a newly constructed simulator.
C6_RowValuesAndDeltas ==
  \A c \in 1..Len(history) :
    LET h == history[c]
        mutant_map(s) ==
          [ Update(default_gene_vals, h.modifiers) EXCEPT !.mSUC_n = Mul(@, s) ]
        wt_map(s) == [ default_gene_vals EXCEPT !.mSUC_n = Mul(@, s) ]
        sg == [ low |-> h.row.sg_low, base |-> h.row.sg_base,
                high |-> h.row.sg_high ]
        delta == [ low |-> h.row.delta_low_vs_WT,
                   base |-> h.row.delta_base_vs_WT,
                   high |-> h.row.delta_high_vs_WT ]
        fresh == Construct(h.variant, DefaultTMAX, DefaultTHRESHOLD)
    IN \A i \in 1..3 :
         LET level == LevelNames[i]
             s == SUCROSE_LEVELS[level]
             m == h.runs[i]
             w == h.runs[i + 3]
         IN /\ m.level = level /\ w.level = level
            /\ m.gene_vals = mutant_map(s)
            /\ w.gene_vals = wt_map(s)
            /\ m.sg_val = m.final_vals.mSustained_growth
            /\ w.sg_val = w.final_vals.mSustained_growth
            /\ sg[level] = m.sg_val
            /\ delta[level] = m.sg_val - w.sg_val
            /\ (scen_pc = "done" /\ c = Len(history)) =>
                 /\ m.sg_val = sustained_growth(fresh, mutant_map(s)).sg_val
                 /\ w.sg_val = sustained_growth(fresh, wt_map(s)).sg_val

\* C6 witness: a row was returned for a scenario that overrides mSUC_n to
\* 0.5: the solver ran with mSUC_n = 0.25, 0.5, 0.75 and the deltas against
\* the wild type are not 0.
C6_Witness ==
  /\ scen_pc = "done"
  /\ Len(history) = 1
  /\ history[1].modifiers = Single("mSUC_n", Half)
  /\ history[1].runs[1].gene_vals.mSUC_n = Half \div 2
  /\ history[1].runs[3].gene_vals.mSUC_n = Half + (Half \div 2)
  /\ history[1].runs[4].gene_vals.mSUC_n = Half
  /\ history[1].row.delta_low_vs_WT # Zero
  /\ history[1].row.delta_high_vs_WT # Zero

\* Two calls whose gene maps differ in the dial and in nothing else.
DifferOnlyInDial(a, b) ==
  LET ga == Update(default_gene_vals, a.modifiers)
      gb == Update(default_gene_vals, b.modifiers)
  IN /\ a.variant = b.variant
     /\ DOMAIN ga = DOMAIN gb
     /\ ga[Dial] # gb[Dial]
     /\ \A k \in DOMAIN ga \ {Dial} : ga[k] = gb[k]

\* C9: under the Baseline class two calls whose gene maps differ only in
\* mSL_pathway_intact give the same step outputs (from the initial state
\* and from the steady state reached), the same steady states and the same
\* row values sg_low, sg_base, sg_high and deltas.
C9_BaselineIgnoresDial ==
  \A a, b \in Range(history) :
    (a.variant = "Baseline" /\ DifferOnlyInDial(a, b)) =>
      /\ \A i \in 1..6 : a.runs[i].final_vals = b.runs[i].final_vals
      /\ \A i \in 1..3 :
           \A x \in { default_node_vals, a.runs[i].final_vals } :
             step_next("Baseline", a.runs[i].gene_vals, x, default_exo_vals)
               = step_next("Baseline", b.runs[i].gene_vals, x,
                           default_exo_vals)
      /\ a.row.sg_low = b.row.sg_low
      /\ a.row.sg_base = b.row.sg_base
      /\ a.row.sg_high = b.row.sg_high
      /\ a.row.delta_low_vs_WT = b.row.delta_low_vs_WT
      /\ a.row.delta_base_vs_WT = b.row.delta_base_vs_WT
      /\ a.row.delta_high_vs_WT = b.row.delta_high_vs_WT

\* C9 witness: the Baseline class ran a knockout scenario with the dial at
\* 1 and again with the dial at 0; the gene maps passed to the solver
\* differ, the rows agree and their deltas are not 0.
C9_Witness ==
  /\ Len(history) = 2
  /\ history[1].variant = "Baseline"
  /\ DifferOnlyInDial(history[1], history[2])
  /\ history[1].runs[1].gene_vals[Dial] = One
  /\ history[2].runs[1].gene_vals[Dial] = Zero
  /\ history[1].row = history[2].row
  /\ history[1].row.delta_high_vs_WT # Zero

\* The low-to-high slope of a row: (sg_high - sg_low) over the distance of
\* the sucrose scales 0.5 and 1.5.
Slope(row) ==
  Div(row.sg_high - row.sg_low, SUCROSE_LEVELS.high - SUCROSE_LEVELS.low)

\* The wild-type scenario (every modifier 1.0) followed or preceded by the
\* scenario with the dial at 0.0 and every other modifier 1.0, on the same
\* class with the default TMAX and THRESHOLD.
WildTypeAndKnockout(a, b) ==
  /\ a.variant = b.variant
  /\ sims[a.inst].TMAX = DefaultTMAX /\ sims[b.inst].TMAX = DefaultTMAX
  /\ sims[a.inst].THRESHOLD = DefaultTHRESHOLD
  /\ sims[b.inst].THRESHOLD = DefaultTHRESHOLD
  /\ Update(default_gene_vals, a.modifiers) = [ k \in Genes |-> One ]
  /\ Update(default_gene_vals, b.modifiers)
       = [ [ k \in Genes |-> One ] EXCEPT ![Dial] = Zero ]

\* C10: with the default TMAX and THRESHOLD, under the GxE class the
\* wild-type scenario has a strictly larger low-to-high slope than the
\* scenario with the dial at 0; under the Baseline class the two slopes
\* differ by less than the tolerance EPS.
C10_SlopeInteraction ==
  \A a, b \in Range(history) :
    WildTypeAndKnockout(a, b) =>
      /\ (a.variant = "GxE" => Slope(a.row) > Slope(b.row))
      /\ (a.variant = "Baseline" => Abs(Slope(a.row) - Slope(b.row)) < EPS)

\* C10 witness: the GxE class ran the wild type with every field at 1.0 and
\* then the same fields with the dial at 0; both slopes are positive and
\* the wild type's is larger by more than the tolerance.
C10_Witness ==
  /\ Len(history) = 2
  /\ history[1].variant = "GxE"
  /\ history[1].modifiers = AllFieldsOne
  /\ WildTypeAndKnockout(history[1], history[2])
  /\ Slope(history[2].row) > Zero
  /\ Slope(history[1].row) > Slope(history[2].row) + EPS

\* C11: whatever calls were made on it, an instance's default maps are as
\* constructed (every modifier 1.0, every node 1.0, every exogenous input
\* 0.0) and the caller's override map is as the caller passed it; the row a
\* call returns is the row a newly constructed simulator returns for the
\* same overrides, whichever scenarios the instance ran before.
C11_CallsLeaveMapsUnchanged ==
  /\ \A i \in DOMAIN sims :
       /\ sims[i].default_gene_vals = [ k \in Genes |-> One ]
       /\ sims[i].default_node_vals = [ k \in Nodes |-> One ]
       /\ sims[i].default_exo_vals = [ k \in Nodes |-> Zero ]
  /\ call.modifiers = call.given
  /\ \A h \in Range(history) : h.modifiers_after = h.modifiers
  /\ scen_pc = "done" =>
       LET h == history[Len(history)]
           fresh == Construct(h.variant, DefaultTMAX, DefaultTHRESHOLD)
           sg == [ i \in 1..6 |->
                     run_scenario(fresh,
                                  IF i <= 3 THEN h.modifiers ELSE wt_mods,
                                  SUCROSE_LEVELS[LevelNames[((i - 1) % 3) + 1]]
                                 ).sg_val ]
       IN h.row = ResultRow(h.row.genotype, sg)

\* C11 witness: an instance ran a scenario overriding mSUC_n with the dial
\* off and then the same with the dial on; the rows differ, the second
\* call has made all its runs, and the maps are as they were.
C11_Witness ==
  /\ scen_pc = "done"
  /\ Len(history) = 2
  /\ history[1].inst = history[2].inst
  /\ history[1].modifiers # history[2].modifiers
  /\ "mSUC_n" \in DOMAIN history[2].modifiers
  /\ history[2].modifiers_after = history[2].modifiers
  /\ history[1].row.sg_high # history[2].row.sg_high
  /\ sims[history[2].inst].default_gene_vals = default_gene_vals
  /\ sims[history[2].inst].default_node_vals = default_node_vals

\* C13: an override key that names no gene modifier is accepted: the call
\* does not raise, the row run_and_package returns holds the value under
\* 'param_<key>' (next to a param_ entry for every other override and the
\* unchanged entries of simulate_genotype's row), and sg_low, sg_base,
\* sg_high and the three deltas are those of the call without that key.
C13_UnknownKeyIsInert ==
  /\ (UnknownKey \in DOMAIN call.given
        /\ \A k \in DOMAIN call.given : call.given[k] >= Zero)
       => scen_pc # "raised"
  /\ \A b \in Range(history) :
       UnknownKey \in DOMAIN b.modifiers =>
         /\ DOMAIN b.packaged
              = DOMAIN b.row \cup { ParamKey(k) : k \in DOMAIN b.modifiers }
         /\ b.packaged[ParamKey(UnknownKey)] = b.modifiers[UnknownKey]
         /\ \A k \in DOMAIN b.modifiers :
              b.packaged[ParamKey(k)] = b.modifiers[k]
         /\ \A x \in DOMAIN b.row : b.packaged[x] = b.row[x]
         /\ \A a \in Range(history) :
              ( /\ a.variant = b.variant
                /\ DOMAIN a.modifiers = DOMAIN b.modifiers \ {UnknownKey}
                /\ \A k \in DOMAIN a.modifiers :
                     a.modifiers[k] = b.modifiers[k] )
              => /\ a.row = b.row
                 /\ \A x \in DOMAIN a.packaged : b.packaged[x] = a.packaged[x]

\* C13 witness: a GxE knockout scenario was run without and with the
\* unknown key: the key reached the gene map passed to the solver, the
\* packaged row holds it under its param_ name, and the two rows, whose
\* deltas are not 0, are equal.
C13_Witness ==
  /\ scen_pc = "done"
  /\ Len(history) = 2
  /\ history[1].variant = "GxE"
  /\ history[1].modifiers = Single("mMAX2_n", Zero)
  /\ DOMAIN history[2].modifiers = { "mMAX2_n", UnknownKey }
  /\ UnknownKey \in DOMAIN history[2].runs[1].gene_vals
  /\ history[2].packaged["param_mXYZ_n"] = UnknownKeyValue
  /\ history[2].packaged["param_mMAX2_n"] = Zero
  /\ history[1].row = history[2].row
  /\ history[2].packaged.delta_low_vs_WT # Zero
  /\ history[2].packaged.sg_high = history[1].row.sg_high

\* C14: no input is fatal: whatever override map the text fields parse to,
\* negative values included, the solver and run_and_package complete and
\* return numbers; no call ends by raising an error.
C14_NoInputIsFatal == scen_pc # "raised"

(***************************************************************************)
(* Claims about the arithmetic of step_next (specification SpecStep)       *)
(***************************************************************************)
\* C12: when the initial state (here the default, all 1.0), every gene
\* modifier and every exogenous input are non-negative, then in every state
\* reached by applying step_next any number of times, under either class,
\* every entry is non-negative, every divisor the update rule evaluates on
\* that state is at least 1, and no application raises a division by zero.
C12_NonNegativeStatesSafeDivisors ==
  ( /\ \A k \in DOMAIN arg_gene_vals : arg_gene_vals[k] >= Zero
    /\ \A k \in DOMAIN arg_exo_vals : arg_exo_vals[k] >= Zero )
  => /\ step_pc # "raised"
     /\ \A k \in Nodes : arg_node_vals[k] >= Zero
     /\ \A v \in Variants, k \in Nodes :
          \A d \in Divisors(v, k, arg_node_vals, arg_gene_vals) : d >= One
     /\ step_pc = "ret" =>
          \A v \in Variants, k \in Nodes : ret_new[v][k] >= Zero

\* C12 witness: with mCXE_n knocked out the state reached after two
\* applications has mCXE = 0, so the divisor 1 + mCXE of the mSL rule is
\* exactly 1, and a third application has returned.
C12_Witness ==
  /\ step_pc = "ret"
  /\ feeds >= 2
  /\ arg_gene_vals.mCXE_n = Zero
  /\ arg_node_vals.mCXE = Zero
  /\ Divisors("GxE", "mSL", arg_node_vals, arg_gene_vals) = { One }
  /\ ret_new["GxE"].mSL > One
  /\ ret_new["GxE"].mCXE = Zero

(***************************************************************************)
(* Claims about parse_modifiers_from_text_inputs (specification SpecParse) *)
(***************************************************************************)
\* C15: the map returned has exactly the keys of the input; a text that is
\* blank, whitespace only or not a number gives 1.0 and a numeric text gives
\* its value ("0.25" gives 0.25), whatever whitespace surrounds it; the call
\* returns for every text.  The expected value of each text is listed.
C15_ParseFallsBackToOne ==
  LET expected ==
        { << << >>, One >>,
         << << "a", "b", "c" >>, One >>,
         << << "0", ".", "2", "5" >>, SCALE \div 4 >>,
         << << "0" >>, Zero >>,
         << << "1" >>, One >>,
         << << "-", "1" >>, - One >>,
         << << "1", ".", "5" >>, OneAndHalf >>,
         << << "-", "0", ".", "5" >>, - Half >>,
         << << ".", "5" >>, Half >>,
         << << "2", "." >>, Two >>,
         << << "+", "1" >>, One >>,
         << << "1", "0" >>, N(10) >>,
         << << "-" >>, One >>,
         << << "." >>, One >>,
         << << "1", ".", "2", ".", "3" >>, One >>,
         << << "0", ".", "2", " ", "5" >>, One >>,
         << << "-", "-", "1" >>, One >>,
         << << "1", "a" >>, One >>,
         << << "0", ".", "1", "2", "3", "4", "5", "6", "7" >>, 123457 >> }
      ExpectedValue(v) ==
        (CHOOSE e \in expected :
           \E l \in Pads, r \in Pads : v = l \o e[1] \o r)[2]
  IN parse_pc = "ret" =>
       /\ DOMAIN parsed = DOMAIN raw_mods
       /\ \A k \in DOMAIN raw_mods : parsed[k] = ExpectedValue(raw_mods[k])

\* C15 witness: the whole page was parsed with "abc" typed for mSUC_n and
\* the other fields blank: all 27 values are 1.0.
C15_Witness ==
  /\ parse_pc = "ret"
  /\ raw_mods = [ AllFieldsBlank EXCEPT !.mSUC_n = << "a", "b", "c" >> ]
  /\ parsed = [ k \in Genes |-> One ]


(***************************************************************************)
(* Claims about the scenario generators (specification SpecGen)            *)
(***************************************************************************)
Knocked(mods) == { f \in DOMAIN mods : mods[f] = Zero }

\* C16: every map drawn in mode mutant_single_knockout has the 27 modifier
\* names as keys, exactly one value 0.0 and the other 26 exactly 1.0; every
\* map drawn in mode mutant_double_knockout has exactly two distinct
\* modifiers at 0.0 and the other 25 exactly 1.0; at every draw.
C16_KnockoutsExact ==
  gen_pc = "drawn" =>
    /\ DOMAIN gen_mods = Range(MODIFIER_FIELDS)
    /\ Cardinality(DOMAIN gen_mods) = 27
    /\ \A f \in DOMAIN gen_mods : gen_mods[f] \in { Zero, One }
    /\ gen_mode = "mutant_single_knockout" =>
         /\ Cardinality(Knocked(gen_mods)) = 1
         /\ Cardinality(DOMAIN gen_mods \ Knocked(gen_mods)) = 26
    /\ gen_mode = "mutant_double_knockout" =>
         /\ Cardinality(Knocked(gen_mods)) = 2
         /\ Cardinality(DOMAIN gen_mods \ Knocked(gen_mods)) = 25

\* A second draw, of a double knockout, has been made.
C16_Witness ==
  /\ gen_pc = "drawn"
  /\ gen_draws = 2
  /\ gen_mode = "mutant_double_knockout"
  /\ Knocked(gen_mods) = { "mSUC_n", "mSL_pathway_intact" }


(***************************************************************************)
(* Claims about a page (specification SpecPage)                            *)
(***************************************************************************)
\* The positions of results_accum whose rows bulk_generate made.
Generated == { p \in DOMAIN accum_origin : accum_origin[p].by = "bulk" }

\* C17: bulk_generate labels its i-th generated scenario
\* rand_<mode>_<existing_count + i>; the page passing the size of its
\* accumulated list as existing_count and appending all the rows returned,
\* no two generated rows of the list carry the same label, after any number
\* of bulk generations (and manual runs and resets between them).
C17_GeneratedLabelsUnique ==
  /\ Len(accum_origin) = Len(results_accum)
  /\ \A p \in Generated :
       results_accum[p].genotype =
         "rand_" \o accum_origin[p].mode \o "_"
           \o ToString(accum_origin[p].existing_count + accum_origin[p].i)
  /\ \A p \in Generated : \A q \in Generated :
       p # q => results_accum[p].genotype # results_accum[q].genotype

\* Two bulk generations in the same mode have followed a manual run whose
\* name looks like a generated one.
C17_Witness ==
  /\ Len(results_accum) = 3
  /\ Generated = { 2, 3 }
  /\ results_accum[1].genotype = "rand_mutant_single_knockout_0"
  /\ accum_origin[2].mode = "mutant_single_knockout"
  /\ accum_origin[3].mode = "mutant_single_knockout"
  /\ accum_origin[2].existing_count = 1
  /\ accum_origin[3].existing_count = 2
  /\ results_accum[3].genotype = "rand_mutant_single_knockout_2"

\* The override map a stored row was computed for, read from its param_
\* entries.
ParamsOf(row) == [ f \in Genes |-> row[ParamKey(f)] ]

\* The three deltas a row stores.
DeltasOf(row) ==
  << row.delta_low_vs_WT, row.delta_base_vs_WT, row.delta_high_vs_WT >>

\* C18: the small-delta clamp (a delta of magnitude below 1e-3 is shown as
\* 0) is a render-time transform only: the delta chart of the selected row
\* shows the clamped values, while every stored row stays as run_and_package
\* returned it, in every run of the script that keeps it, and the frame
\* passed to fit_scaling holds the rows' sg_low, sg_base and sg_high as
\* stored.
C18_ClampOnlyInChart ==
  /\ [](page_pc = "shown" =>
          /\ \A p \in DOMAIN results_accum :
               /\ results_accum[p] =
                    RunOnNew(page_class, results_accum[p].genotype,
                             ParamsOf(results_accum[p])).row
               /\ results_accum[p].delta_low_vs_WT =
                    results_accum[p].sg_low
                      - RunOnNew(page_class, "WT", AllFieldsOne).row.sg_low
          /\ ~ show_all =>
               \E p \in DOMAIN results_accum :
                 /\ results_accum[p].genotype = selected_name
                 /\ fig_delta =
                      << [ j \in 1..3 |->
                             IF Abs(DeltasOf(results_accum[p])[j]) < EPS
                             THEN Zero
                             ELSE DeltasOf(results_accum[p])[j] ] >>
          /\ Len(df_scaling) = Len(results_accum)
          /\ \A p \in DOMAIN results_accum :
               /\ df_scaling[p].sg_low = results_accum[p].sg_low
               /\ df_scaling[p].sg_base = results_accum[p].sg_base
               /\ df_scaling[p].sg_high = results_accum[p].sg_high)
  /\ [][\A p \in DOMAIN results_accum :
          p \in DOMAIN results_accum' =>
            results_accum'[p] = results_accum[p]]_vars

\* The chart of a row whose three deltas are below 1e-3 and not 0 is shown:
\* it plots 0 three times, the row and the frame keep the values.
C18_Witness ==
  /\ page_pc = "shown"
  /\ ~ show_all
  /\ \E p \in DOMAIN results_accum :
       /\ results_accum[p].genotype = selected_name
       /\ \A j \in 1..3 : /\ DeltasOf(results_accum[p])[j] # Zero
                           /\ Abs(DeltasOf(results_accum[p])[j]) < EPS
       /\ fig_delta = << << Zero, Zero, Zero >> >>
       /\ df_scaling[p].sg_base
            # RunOnNew(page_class, "WT", AllFieldsOne).row.sg_base


(***************************************************************************)
(* Claims about the solver on a toy network (specification SpecToy)        *)
(***************************************************************************)
\* The distance of a state to the fixed point: the largest over the nodes.
ToyGap(node_vals) ==
  LET gaps == { Abs(node_vals[k] - ToyFixedPoint[k]) : k \in DOMAIN node_vals }
  IN  CHOOSE m \in gaps : \A g \in gaps : g <= m

MaxLog == 20

Pow2(n) == 2 ^ n

\* ceil(log(gap / threshold) / log(2)) for gap > 0: the least integer n with
\* threshold * 2^n >= gap, which is 0 or negative for gap <= threshold.
CeilLog2(gap, threshold) ==
  IF gap > threshold
  THEN CHOOSE n \in 1..MaxLog : /\ threshold * Pow2(n) >= gap
                                /\ threshold * Pow2(n - 1) < gap
  ELSE - (CHOOSE n \in 0..MaxLog : /\ gap * Pow2(n) <= threshold
                                   /\ gap * Pow2(n + 1) > threshold)

\* The number of applications after which the loop can first break on a
\* halving sequence: at least 2, since no comparison follows the first.
ToyStop(gap, threshold) ==
  IF gap > 4 * threshold THEN CeilLog2(gap, threshold) ELSE 2

WithinThreshold(node_vals, threshold) ==
  \A k \in DOMAIN node_vals :
    Abs(node_vals[k] - ToyFixedPoint[k]) <= threshold

\* C19 as stated: on the toy network the loop stops on convergence within
\* ceil(log(initial_gap/threshold)/log(2)) iterations and the returned
\* value is within threshold of the fixed point (read with the default
\* iteration cap, which no run below comes near).
C19_StopsWithinCeilLog2 ==
  (/\ solver_pc = "done"
   /\ sim.TMAX = DefaultTMAX
   /\ ToyGap(sol_node_vals) > 0) =>
    /\ broke
    /\ applications <= CeilLog2(ToyGap(sol_node_vals), sim.THRESHOLD)
    /\ WithinThreshold(returned, sim.THRESHOLD)

\* C19 as amended: on the toy network with exactly computed halvings, when
\* max(2, ceil(log(initial_gap/threshold)/log(2))) (2 for a gap of 0) does
\* not exceed TMAX, the loop stops on convergence within that many
\* iterations and the returned value is within threshold of the fixed point.
C19_StopsWithinAtLeastTwo ==
  (/\ solver_pc = "done"
   /\ ToyStop(ToyGap(sol_node_vals), sim.THRESHOLD) <= sim.TMAX) =>
    /\ broke
    /\ applications <= ToyStop(ToyGap(sol_node_vals), sim.THRESHOLD)
    /\ WithinThreshold(returned, sim.THRESHOLD)

\* A run from 1024 thresholds away has returned after ten iterations, the
\* other node having started at its fixed point.
C19_Witness ==
  /\ solver_pc = "done"
  /\ broke
  /\ sim.TMAX = DefaultTMAX
  /\ ToyGap(sol_node_vals) = 1024 * sim.THRESHOLD
  /\ sol_node_vals.y = ToyFixedPoint.y
  /\ applications = 10
  /\ ~ WithinThreshold(sol_node_vals, sim.THRESHOLD)
  /\ WithinThreshold(returned, sim.THRESHOLD)

(***************************************************************************)
(* Claims about the keys of the node state (specification SpecSolver)      *)
(***************************************************************************)
\* The default state has n keys, and the default exogenous map, every map
\* returned by step_next in the loop and the map returned by
\* simulate_to_steady_state have the keys of the default state.
NodeKeysAre(n) ==
  /\ Cardinality(DOMAIN default_node_vals) = n
  /\ DOMAIN default_exo_vals = DOMAIN default_node_vals
  /\ applications > 0 => DOMAIN current = DOMAIN default_node_vals
  /\ solver_pc = "done" => DOMAIN returned = DOMAIN default_node_vals

\* C20 as stated: the default state, the default exogenous map and every
\* state returned by step_next and by simulate_to_steady_state have one and
\* the same set of 31 keys, in both variants.
C20_ThirtyOneNodeNames == NodeKeysAre(31)

\* C20 as amended: the default state, the default exogenous map and every
\* state returned by step_next and by simulate_to_steady_state have one and
\* the same set of 32 keys, in both variants.
C20_ThirtyTwoNodeNames == NodeKeysAre(32)

\* A GxE simulator has returned, after its loop broke, a state of 32 keys
\* that differs from the state it was called with.
C20_Witness ==
  /\ solver_pc = "done"
  /\ broke
  /\ sim.variant = "GxE"
  /\ applications >= 2
  /\ returned # sol_node_vals
  /\ Cardinality(DOMAIN returned) = 32
  /\ DOMAIN returned = DOMAIN sol_node_vals

(***************************************************************************)
(* Claims about the original class's bud-release rule (SpecStep)           *)
(***************************************************************************)
\* C21 as stated: in the Baseline variant the new bud-release entry is the
\* average of the previous sucrose-signal and cytokinin values, divided by
\* the average of the previous ABA and BRC1 values, and multiplied by the
\* previous bud-release value (read for calls without exogenous inputs and
\* with a brake other than 0).
C21_BudReleaseTimesPrevious ==
  (/\ step_pc = "ret"
   /\ arg_exo_vals = default_exo_vals
   /\ entry_node_vals.mABA + entry_node_vals.mBRC1_2 > Zero) =>
    LET snap == entry_node_vals
    IN  ret_new["Baseline"].mBud_release =
          Mul(Div(Div(snap.mSUC + snap.mCK, Two),
                  Div(snap.mABA + snap.mBRC1_2, Two)),
              snap.mBud_release)

\* C21 as amended: in the Baseline variant the new bud-release entry is
\* twice the average of the previous sucrose-signal and cytokinin values,
\* divided by one plus the average of the previous ABA and BRC1 values,
\* plus the exogenous bud-release input; the previous bud-release value
\* multiplies the new sustained-growth entry,
\* 2*min(mGA, mPAT_Bud)/(1 + mSUC) * mBud_release plus its exogenous input.
C21_BaselineBudRelease ==
  step_pc = "ret" =>
    LET snap == entry_node_vals
    IN  /\ ret_new["Baseline"].mBud_release =
              Div(Mul(Two, Div(snap.mSUC + snap.mCK, Two)),
                  One + Div(snap.mABA + snap.mBRC1_2, Two))
                + arg_exo_vals.mBud_release
        /\ ret_new["Baseline"].mSustained_growth =
              Mul(Div(Mul(Two, Min(snap.mGA, snap.mPAT_Bud)),
                      One + snap.mSUC),
                  snap.mBud_release)
                + arg_exo_vals.mSustained_growth

\* C21 witness: a call on a fed-back state whose bud-release, sucrose and
\* ABA values are not 1, with a nonzero exogenous bud-release input.
C21_Witness ==
  /\ step_pc = "ret"
  /\ feeds >= 2
  /\ entry_node_vals.mBud_release # One
  /\ entry_node_vals.mSUC # One
  /\ entry_node_vals.mABA # One
  /\ arg_exo_vals.mBud_release # Zero
  /\ ret_new["Baseline"].mSustained_growth # ret_new["Baseline"].mBud_release

(***************************************************************************)
(* Claims about the scaling fits (specification SpecFit)                   *)
(***************************************************************************)
\* 0.99
R2Floor == (99 * SCALE) \div 100

\* The rows after the knockouts, all sparse, change no modifier.
SparseRowsUnchanged ==
  \A i \in (Len(MODIFIER_FIELDS) + 1) .. Len(fit_accum) :
    \A f \in Range(MODIFIER_FIELDS) : fit_accum[i][ParamKey(f)] = One

C23_KnockoutGxEIsBaseline ==
  \A a \in AllRuns :
    (a.variant = "GxE" /\ a.run.gene_vals[Dial] = Zero) =>
      /\ \A x \in { default_node_vals, a.run.final_vals } :
           \A exo_vals \in StepExoChoices :
             step_next("GxE", a.run.gene_vals, x, exo_vals)
               = step_next("Baseline", a.run.gene_vals, x, exo_vals)
      /\ \E b \in { run_scenario(Construct("Baseline", DefaultTMAX,
                                           DefaultTHRESHOLD),
                                 a.run.modifiers,
                                 SUCROSE_LEVELS[a.run.level]) } :
           /\ ~ b.raised
           /\ b.gene_vals = a.run.gene_vals
           /\ b.final_vals = a.run.final_vals
           /\ b.sg_val = a.run.sg_val

\* C23 witness: a GxE instance returned the row of a pathway knockout with
\* a sucrose override; its three values differ from the wild type's, which
\* ran on the same instance with the dial at 1.
C23_Witness ==
  /\ scen_pc = "done"
  /\ Len(history) = 1
  /\ history[1].variant = "GxE"
  /\ \A i \in 1..3 : history[1].runs[i].gene_vals[Dial] = Zero
  /\ \A i \in 4..6 : history[1].runs[i].gene_vals[Dial] = One
  /\ history[1].row.delta_low_vs_WT # Zero
  /\ history[1].row.delta_base_vs_WT # Zero
  /\ history[1].row.delta_high_vs_WT # Zero
  /\ history[1].row.sg_low < history[1].row.sg_high

(***************************************************************************)
(* Claims about the wild type's fixed point (specification SpecSolver)     *)
(***************************************************************************)
\* C24: with all gene modifiers 1.0 and all exogenous inputs 0.0 the
\* all-ones default state is a fixed point of step_next in both classes; the
\* solver started from it holds the all-ones state throughout and returns
\* it, after exactly two applications when its cap allows two, so the
\* sustained growth it returns for the wild type is exactly 1.0.
C24_WildTypeFixedPoint ==
  (/\ sol_gene_vals = default_gene_vals
   /\ sol_node_vals = default_node_vals
   /\ sol_exo_vals = default_exo_vals) =>
    /\ step_next(sim.variant, sol_gene_vals, default_node_vals, sol_exo_vals)
         = default_node_vals
    /\ current = default_node_vals
    /\ applications <= 2
    /\ solver_pc = "done" =>
         /\ returned = default_node_vals
         /\ returned.mSustained_growth = One
         /\ sim.TMAX >= 2 => (applications = 2 /\ broke)

\* C24 witness: a GxE simulator constructed with the defaults has returned
\* the all-ones state for the wild type after two applications.
C24_Witness ==
  /\ solver_pc = "done"
  /\ sim.variant = "GxE"
  /\ sim.TMAX = DefaultTMAX
  /\ sim.THRESHOLD = DefaultTHRESHOLD
  /\ sol_gene_vals = default_gene_vals
  /\ sol_node_vals = default_node_vals
  /\ sol_exo_vals = default_exo_vals
  /\ applications = 2
  /\ comparisons = 1
  /\ returned = default_node_vals

(***************************************************************************)
(* Claims about the labels on a page's list (specification SpecPage)       *)
(***************************************************************************)
\* C25: over any sequence of page actions on one accumulation list (a manual
\* run appends one row, a bulk generation called with the list's length as
\* existing_count appends its rows in the order generated, a reset empties
\* the list), every bulk-generated row at 0-based position j of the list is
\* labelled rand_<mode>_<j>.
C25_GeneratedLabelIsPosition ==
  \A p \in Generated :
    /\ p \in DOMAIN results_accum
    /\ results_accum[p].genotype = AutoName(accum_origin[p].mode, p - 1, 0)
    /\ results_accum[p].genotype
         = "rand_" \o accum_origin[p].mode \o "_" \o ToString(p - 1)

\* C25 witness: a generated row, a manual row and a generated row of another
\* mode lie at positions 0, 1 and 2.
C25_Witness ==
  /\ Len(results_accum) = 3
  /\ Generated = { 1, 3 }
  /\ accum_origin[2].by = "manual"
  /\ accum_origin[1].mode # accum_origin[3].mode
  /\ results_accum[1].genotype = "rand_mutant_double_knockout_0"
  /\ results_accum[3].genotype = "rand_mutant_single_knockout_2"

(***************************************************************************)
(* Claims about a knocked-out sucrose modifier (specification SpecScenario) *)
(***************************************************************************)
\* The calls of simulate_genotype whose overrides set mSUC_n to 0.0.
SucroseKnockedOut ==
  { h \in Range(history) :
      "mSUC_n" \in DOMAIN h.modifiers /\ h.modifiers["mSUC_n"] = Zero }

\* C26: if the overrides set mSUC_n to 0.0 the sucrose scale has no effect:
\* the gene maps built for the scales 0.5, 1.0 and 1.5 are one and the same
\* map, and the row has sg_low = sg_base = sg_high, in both classes and
\* whatever the other overrides are.
C26_KnockedOutSucroseIgnoresScale ==
  \A h \in SucroseKnockedOut :
    /\ \A i \in 1..3 :
         /\ h.runs[i].level = LevelNames[i]
         /\ h.runs[i].gene_vals
              = ScenarioGeneVals(default_gene_vals, h.modifiers,
                                 SUCROSE_LEVELS[LevelNames[i]])
         /\ h.runs[i].gene_vals["mSUC_n"] = Zero
    /\ h.runs[1].gene_vals = h.runs[2].gene_vals
    /\ h.runs[2].gene_vals = h.runs[3].gene_vals
    /\ h.runs[1].sg_val = h.runs[2].sg_val
    /\ h.runs[2].sg_val = h.runs[3].sg_val
    /\ h.row.sg_low = h.row.sg_base
    /\ h.row.sg_base = h.row.sg_high

\* C26 witness: a GxE call with sucrose and cytokinin knocked out has
\* returned its row, while the wild-type runs of the same call differ from
\* level to level.
C26_Witness ==
  \E h \in SucroseKnockedOut :
    /\ h.variant = "GxE"
    /\ h.modifiers["mCK_n"] = Zero
    /\ h.row.sg_low = h.row.sg_high
    /\ h.runs[4].gene_vals # h.runs[6].gene_vals
    /\ h.runs[4].sg_val # h.runs[6].sg_val
    /\ h.row.delta_low_vs_WT # h.row.delta_high_vs_WT

(***************************************************************************)
(* Claims about bulk_generate's modes (specification SpecBulk)             *)
(***************************************************************************)
\* C27: bulk_generate called with a mode string that is none of the four
\* modes raises no error and returns n rows whose overrides are all 27
\* modifiers at 1.0 (the wild type), the i-th labelled
\* rand_<mode>_<existing_count + i> and each with its three deltas exactly
\* 0.0.
C27_UnknownModeGivesWildType ==
  (bulk_pc # "idle" /\ bulk_args.mode \notin BulkModes) =>
    /\ bulk_pc # "raised"
    /\ Len(bulk_rows) <= bulk_args.n
    /\ bulk_pc = "returned" =>
         /\ Len(bulk_rows) = bulk_args.n
         /\ \E new \in { bulk_generate(bulk_args.sim_class, bulk_args.mode,
                                       [ i \in 1..bulk_args.n |->
                                           AllModifiersOne ],
                                       bulk_args.existing_count) } :
              ~ new.raised /\ new.rows = bulk_rows
    /\ \A p \in DOMAIN bulk_rows :
         /\ Cardinality(Genes) = 27
         /\ ParamsOf(bulk_rows[p]) = AllModifiersOne
         /\ bulk_rows[p].genotype
              = "rand_" \o bulk_args.mode \o "_"
                  \o ToString(bulk_args.existing_count + p - 1)
         /\ DeltasOf(bulk_rows[p]) = << Zero, Zero, Zero >>

\* C27 witness: a call in an unknown mode on the GxE class has returned two
\* rows, numbered from the three rows the caller already had.
C27_Witness ==
  /\ bulk_pc = "returned"
  /\ bulk_args.sim_class = "GxE"
  /\ bulk_args.mode = "wild_type"
  /\ bulk_args.existing_count = 3
  /\ Len(bulk_rows) = 2
  /\ bulk_rows[1].genotype = "rand_wild_type_3"
  /\ bulk_rows[2].genotype = "rand_wild_type_4"
  /\ bulk_rows[2].delta_low_vs_WT = Zero
  /\ bulk_rows[2].sg_low < bulk_rows[2].sg_high

====
